---- MODULE Spec2Model ----
(***************************************************************************)
(* Apex Motors session authority: token issuance, rotation and revocation  *)
(* (auth.go, jwt.go), the middleware pipeline and the sliding-window rate   *)
(* limiter (middleware.go), wired as in main.go.                            *)
(*                                                                          *)
(* Time is a tick counter; TicksPerSec ticks make one second.  time.Now()   *)
(* reads `clock` (ticks); jwt.NewNumericDate truncates to whole seconds.    *)
(* Every request runs in its own goroutine: a process p of Procs with a     *)
(* program counter pc[p].  A step is one lock operation, or the statements  *)
(* executed while a lock is held together with its release, or a block of   *)
(* process-local statements.                                                *)
(***************************************************************************)
EXTENDS Integers, Sequences, FiniteSets, TLC

(* ------------------------------ bounds -------------------------------- *)
\* number of request goroutines that can be in flight together
NumProcs == 2
\* number of times the clock advances in a behaviour of the session authority
MaxTicksAuth == 2
\* number of requests in a behaviour of the session authority
MaxReqsAuth == 3
\* number of requests in a short behaviour of the session authority
MaxReqsPair == 2
\* number of requests in a behaviour of the routed pipeline
MaxReqsPipe == 3
\* number of times the clock advances in a behaviour of the routed pipeline
MaxTicksPipe == 2
\* clock resolution: ticks per second
TicksPerSec == 2
\* number of requests in a behaviour of the rate limiter
MaxReqsRate == 12
\* number of requests in a behaviour of the handlers with signing failures
MaxReqsSeq == 4
\* number of times the clock advances in such a behaviour
MaxTicksSeq == 2
\* number of requests in a behaviour of the guards
MaxReqsGuards == 12
\* number of times the clock advances in a behaviour of the guards
MaxTicksGuards == 1
\* number of requests in a behaviour with token expiry
MaxReqsExpiry == 3
\* number of times the clock advances in a behaviour with token expiry
MaxTicksExpiry == 1
\* number of times the clock advances in a behaviour of the rate limiter
MaxTicksRate == 1
MaxReqsConc == 11
MaxReqsLive == 3

(* ---------------------------- config.go -------------------------------- *)
\* durations are in seconds
accessTokenTTL == 900
refreshTokenTTL == 604800
rateLimitWindow == 60
rateLimitMax == 10
demoUsername == "seller"
demoPassword == "carmarket123"
jwtSecret == "apex-motors-secret-change-in-production"

\* a time.Duration given in seconds, in ticks
Dur(sec) == sec * TicksPerSec

Procs == 1..NumProcs

(* ----------------------- token strings (jwt.go) ------------------------ *)
\* strings that are not a JWT
EmptyString == [raw |-> ""]

\* the MAC of the signing input under a key (collision-free)
HMAC(key, alg, claims) == [key |-> key, alg |-> alg, claims |-> claims]

\* jwt.NewNumericDate: a time (ticks) truncated to whole seconds
NewNumericDate(t) == t \div TicksPerSec

\* Claims{Username, TokenType, RegisteredClaims{ExpiresAt, IssuedAt}} built at
\* time `now` with lifetime ttl (seconds)
NewClaims(username, tokenType, ttl, now) ==
    [Username |-> username, TokenType |-> tokenType,
     ExpiresAt |-> NewNumericDate(now + Dur(ttl)),
     IssuedAt |-> NewNumericDate(now)]

NoClaims == [Username |-> "", TokenType |-> "", ExpiresAt |-> 0, IssuedAt |-> 0]

\* jwt.NewWithClaims(method, claims).SignedString(key): header.payload.signature
SignedString(alg, claims, key) ==
    [alg |-> alg, claims |-> claims, sig |-> HMAC(key, alg, claims)]

IsJWT(s) == "alg" \in DOMAIN s

HMACMethods == {"HS256", "HS384", "HS512"}

\* the access / refresh token generateTokenPair signs at time `now`
AccessTokenAt(username, now) ==
    SignedString("HS256", NewClaims(username, "access", accessTokenTTL, now), jwtSecret)

\* mutant: the refresh token's claims are a copy of the access token's, with
\* the token type left as it was
RefreshTokenAt_accessType(username, now) ==
    SignedString("HS256", NewClaims(username, "access", refreshTokenTTL, now), jwtSecret)

RefreshTokenAt(username, now) ==
    SignedString("HS256", NewClaims(username, "refresh", refreshTokenTTL, now), jwtSecret)

\* the error values validateJWT returns: nil, jwt.ErrTokenInvalidClaims
Nil == ""
ErrTokenInvalidClaims == "token has invalid claims"

\* mutant: the signature is not verified
ParseWithClaimsOK_noSignature(tokenString, now) ==
    /\ IsJWT(tokenString)
    /\ tokenString.alg \in HMACMethods
    /\ now < Dur(tokenString.claims.ExpiresAt)

\* mutant: a token is still accepted at its exp instant
ParseWithClaimsOK_expiryInclusive(tokenString, now) ==
    /\ IsJWT(tokenString)
    /\ tokenString.alg \in HMACMethods
    /\ tokenString.sig = HMAC(jwtSecret, tokenString.alg, tokenString.claims)
    /\ now <= Dur(tokenString.claims.ExpiresAt)

\* mutant: the exp claim is not verified
ParseWithClaimsOK_noExpiry(tokenString, now) ==
    /\ IsJWT(tokenString)
    /\ tokenString.alg \in HMACMethods
    /\ tokenString.sig = HMAC(jwtSecret, tokenString.alg, tokenString.claims)

\* jwt.ParseWithClaims with the key function of validateJWT: the token parses,
\* its method is an HMAC, the signature verifies under jwtSecret and the
\* current time is before exp
ParseWithClaimsOK(tokenString, now) ==
    /\ IsJWT(tokenString)
    /\ tokenString.alg \in HMACMethods
    /\ tokenString.sig = HMAC(jwtSecret, tokenString.alg, tokenString.claims)
    /\ now < Dur(tokenString.claims.ExpiresAt)

\* mutant: the token type is not enforced
validateJWT_anyType(tokenString, expectedType, now) ==
    IF ~ParseWithClaimsOK(tokenString, now)
    THEN [err |-> TRUE, error |-> ErrTokenInvalidClaims, claims |-> NoClaims]
    ELSE [err |-> FALSE, error |-> Nil, claims |-> tokenString.claims]

\* mutant: on a token of the wrong type the parsed claims are returned with the
\* error
validateJWT_leaksClaims(tokenString, expectedType, now) ==
    IF ~ParseWithClaimsOK(tokenString, now)
    THEN [err |-> TRUE, error |-> ErrTokenInvalidClaims, claims |-> NoClaims]
    ELSE IF tokenString.claims.TokenType # expectedType
         THEN [err |-> TRUE, error |-> ErrTokenInvalidClaims, claims |-> tokenString.claims]
         ELSE [err |-> FALSE, error |-> Nil, claims |-> tokenString.claims]

\* validateJWT(tokenString, expectedType) at time now: [err, error, claims],
\* err = (error # nil)
validateJWT(tokenString, expectedType, now) ==
    IF ~ParseWithClaimsOK(tokenString, now)
    THEN [err |-> TRUE, error |-> ErrTokenInvalidClaims, claims |-> NoClaims]
    ELSE IF tokenString.claims.TokenType # expectedType
         THEN [err |-> TRUE, error |-> ErrTokenInvalidClaims, claims |-> NoClaims]
         ELSE [err |-> FALSE, error |-> Nil, claims |-> tokenString.claims]

(* ------------------------- requests, responses ------------------------- *)
\* a decoded JSON body; a missing field has Go's zero value
Body(decodes, username, password, refreshToken) ==
    [decodes |-> decodes, username |-> username, password |-> password,
     refresh_token |-> refreshToken]
NoBody == Body(FALSE, "", "", EmptyString)

\* Authorization header: "" (absent), or a value with or without "Bearer "
NoHeader == [present |-> FALSE, bearer |-> FALSE, token |-> EmptyString]
Header(bearer, token) == [present |-> TRUE, bearer |-> bearer, token |-> token]

\* strings.TrimPrefix(authHeader, "Bearer ")
TrimBearer(h) == h.token

NoReq == [route |-> "", method |-> "", xff |-> <<>>, remote |-> "",
          auth |-> NoHeader, body |-> NoBody]

NoResp == [code |-> 0, error |-> "", access_token |-> EmptyString,
           refresh_token |-> EmptyString, expires_in |-> 0, message |-> "",
           retry_after |-> ""]

\* respond(w, code, nil, errMsg)
ErrorResp(code, errMsg) == [NoResp EXCEPT !.code = code, !.error = errMsg]

\* respond(w, 200, LoginResponse{...}, "")
LoginResponse(access, refresh, message) ==
    [NoResp EXCEPT !.code = 200, !.access_token = access, !.refresh_token = refresh,
                   !.expires_in = accessTokenTTL, !.message = message]

(* -------------------------- middleware chain --------------------------- *)
Stage(mw, arg) == [mw |-> mw, arg |-> arg]

\* a handler function is the sequence of stages it runs, outermost first;
\* mw(next) puts the middleware's stage in front of next
Wrap(mw, next) == <<mw>> \o next

\* mutant: the middlewares are applied front to back, so the last one listed
\* ends up outermost
RECURSIVE ChainFrom_forward(_, _, _)
ChainFrom_forward(h, mws, i) ==
    IF i = 0 THEN h ELSE ChainFrom_forward(Wrap(mws[Len(mws) - i + 1], h), mws, i - 1)

RECURSIVE ChainFrom(_, _, _)
ChainFrom(h, mws, i) == IF i = 0 THEN h ELSE ChainFrom(Wrap(mws[i], h), mws, i - 1)

\* Chain(h, mws...): apply in reverse so mws[1] is outermost
Chain(h, mws) == ChainFrom(h, mws, Len(mws))

LoggingMW == Stage("Logging", "")
RateLimitMW == Stage("RateLimit", "")
AuthMW == Stage("Auth", "")
MethodMW(method) == Stage("Method", method)
Handler(name) == <<Stage(name, "")>>

\* mutant: on /api/login and /api/refresh the method is checked before the
\* rate limit
Routes_methodFirst ==
    [login   |-> Wrap(LoggingMW, Chain(Handler("loginHandler"),
                                       <<MethodMW("POST"), RateLimitMW>>)),
     refresh |-> Wrap(LoggingMW, Chain(Handler("refreshHandler"),
                                       <<MethodMW("POST"), RateLimitMW>>)),
     logout  |-> Wrap(LoggingMW, Chain(Handler("logoutHandler"),
                                       <<AuthMW, MethodMW("POST")>>)),
     cars    |-> Wrap(LoggingMW, Chain(Handler("getCarsHandler"),
                                       <<AuthMW, MethodMW("GET")>>))]

\* mutant: /api/logout is registered without AuthMiddleware
Routes_logoutUnguarded ==
    [login   |-> Wrap(LoggingMW, Chain(Handler("loginHandler"),
                                       <<RateLimitMW, MethodMW("POST")>>)),
     refresh |-> Wrap(LoggingMW, Chain(Handler("refreshHandler"),
                                       <<RateLimitMW, MethodMW("POST")>>)),
     logout  |-> Wrap(LoggingMW, Chain(Handler("logoutHandler"),
                                       <<MethodMW("POST")>>)),
     cars    |-> Wrap(LoggingMW, Chain(Handler("getCarsHandler"),
                                       <<AuthMW, MethodMW("GET")>>))]

\* mux routes of main()
Routes ==
    [login   |-> Wrap(LoggingMW, Chain(Handler("loginHandler"),
                                       <<RateLimitMW, MethodMW("POST")>>)),
     refresh |-> Wrap(LoggingMW, Chain(Handler("refreshHandler"),
                                       <<RateLimitMW, MethodMW("POST")>>)),
     logout  |-> Wrap(LoggingMW, Chain(Handler("logoutHandler"),
                                       <<AuthMW, MethodMW("POST")>>)),
     cars    |-> Wrap(LoggingMW, Chain(Handler("getCarsHandler"),
                                       <<AuthMW, MethodMW("GET")>>))]

\* getIP(r): first X-Forwarded-For element, else the host of RemoteAddr
getIP(r) == IF r.xff # <<>> THEN Head(r.xff) ELSE r.remote

\* the clients: one seen through RemoteAddr, one through X-Forwarded-For
RemoteClient == "10.0.0.1"
ForwardedClient == "10.0.0.2"
ClientIPs == {RemoteClient, ForwardedClient}

(* ------------------------------- state --------------------------------- *)
VARIABLES
    clock,            \* time.Now(), in ticks
    nticks,           \* how many times the clock has advanced
    refreshTokens,    \* ledger: token string -> username
    refreshTokensMu,  \* sync.RWMutex: [readers, writer], sets of processes
    rateLimiter,      \* client IP -> sequence of request times
    rateLimiterMu,    \* sync.Mutex: set of holders
    pc,               \* position of each request goroutine
    req,              \* the request each goroutine serves
    chain,            \* stages still to run for the request
    loc,              \* handler locals: claims, exists, accessToken, refreshToken
    resp,             \* response written by the goroutine
    ctx,              \* request context: claims attached by AuthMiddleware
    issued,           \* token strings clients have received
    hist,             \* per request: observations made while it runs
    rotated,          \* refresh tokens some refreshHandler answered 200 for
    removed,          \* refresh tokens deleted from the ledger while present
    checkLog,         \* per client: every isRateLimited call, [at, limited]
    nreqs,            \* number of requests that have arrived so far
    failed            \* refresh tokens some refreshHandler answered 500 for

vars == <<clock, nticks, refreshTokens, refreshTokensMu, rateLimiter, rateLimiterMu,
          pc, req, chain, loc, resp, ctx, issued, hist, rotated, removed,
          checkLog, nreqs, failed>>

NoLoc == [claims |-> NoClaims, exists |-> FALSE,
          accessToken |-> EmptyString, refreshToken |-> EmptyString,
          fresh |-> <<>>]

NoHist == [afterRotate |-> FALSE, afterFailed |-> FALSE, inLedgerAtStart |-> FALSE,
           overlapped |-> {},
           deletedPresent |-> FALSE, invoked |-> <<>>, changed |-> FALSE,
           limited |-> FALSE, check |-> 0]

Init ==
    /\ clock = 0
    /\ nticks = 0
    /\ refreshTokens = <<>>
    /\ refreshTokensMu = [readers |-> {}, writer |-> {}]
    /\ rateLimiter = [ip \in ClientIPs |-> <<>>]
    /\ rateLimiterMu = {}
    /\ pc = [p \in Procs |-> "idle"]
    /\ req = [p \in Procs |-> NoReq]
    /\ chain = [p \in Procs |-> <<>>]
    /\ loc = [p \in Procs |-> NoLoc]
    /\ resp = [p \in Procs |-> NoResp]
    /\ ctx = [p \in Procs |-> NoClaims]
    /\ issued = {}
    /\ hist = [p \in Procs |-> NoHist]
    /\ rotated = {}
    /\ removed = {}
    /\ checkLog = [ip \in ClientIPs |-> <<>>]
    /\ nreqs = 0
    /\ failed = {}


(* ------------------------- locks (sync package) ------------------------ *)
\* RWMutex.RLock succeeds when no writer holds the lock
CanRLock == refreshTokensMu.writer = {}
\* RWMutex.Lock succeeds when nobody holds the lock
CanLock == refreshTokensMu.writer = {} /\ refreshTokensMu.readers = {}

\* delete(m, k) and m[k] = v on a Go map
MapDelete(m, k) == [t \in DOMAIN m \ {k} |-> m[t]]
MapSet(m, k, v) == [t \in DOMAIN m \cup {k} |-> IF t = k THEN v ELSE m[t]]

InFlight(p) == pc[p] \notin {"idle", "done"}

\* the stage a goroutine is about to run
AtStage(p, mw) == pc[p] = "run" /\ chain[p] # <<>> /\ Head(chain[p]).mw = mw

\* the goroutine writes its response and returns
Respond(p, r) == /\ resp' = [resp EXCEPT ![p] = r]
                 /\ pc' = [pc EXCEPT ![p] = "done"]

\* the stage has run; hist records it
Ran(p, mw) == [hist EXCEPT ![p].invoked = Append(@, mw)]

(* ------------------------------- clock --------------------------------- *)
\* time passes by d ticks
Tick(d, maxTicks) ==
    /\ nticks < maxTicks
    /\ clock' = clock + d
    /\ nticks' = nticks + 1
    /\ UNCHANGED <<refreshTokens, refreshTokensMu, rateLimiter, rateLimiterMu, pc, req,
                   chain, loc, resp, ctx, issued, hist, rotated, removed, checkLog, nreqs, failed>>

(* --------------------------- request arrival --------------------------- *)
\* net/http starts a goroutine for request r and calls the handler function ch
Start(p, r, ch, maxReqs) ==
    /\ pc[p] = "idle"
    /\ nreqs < maxReqs
    /\ nreqs' = nreqs + 1
    /\ pc' = [pc EXCEPT ![p] = "run"]
    /\ req' = [req EXCEPT ![p] = r]
    /\ chain' = [chain EXCEPT ![p] = ch]
    /\ hist' = [hist EXCEPT ![p] =
                  [NoHist EXCEPT
                     !.afterRotate = r.body.refresh_token \in rotated,
                     !.afterFailed = r.body.refresh_token \in failed,
                     !.inLedgerAtStart = r.body.refresh_token \in DOMAIN refreshTokens,
                     !.overlapped = {q \in Procs \ {p} : InFlight(q)}]]
    /\ UNCHANGED <<clock, nticks, refreshTokens, refreshTokensMu, rateLimiter,
                   rateLimiterMu, loc, resp, ctx, issued, rotated, removed, checkLog,
                   failed>>

\* the response reaches the client, the goroutine ends
Finish(p) ==
    /\ pc[p] = "done"
    /\ pc' = [pc EXCEPT ![p] = "idle"]
    /\ issued' = issued \cup ({resp[p].access_token, resp[p].refresh_token} \ {EmptyString})
    /\ req' = [req EXCEPT ![p] = NoReq]
    /\ chain' = [chain EXCEPT ![p] = <<>>]
    /\ loc' = [loc EXCEPT ![p] = NoLoc]
    /\ resp' = [resp EXCEPT ![p] = NoResp]
    /\ ctx' = [ctx EXCEPT ![p] = NoClaims]
    /\ hist' = [q \in Procs |->
                  IF q = p THEN NoHist
                  ELSE [hist[q] EXCEPT !.overlapped = @ \ {p}]]
    /\ UNCHANGED <<clock, nticks, refreshTokens, refreshTokensMu, rateLimiter,
                   rateLimiterMu, rotated, removed, checkLog, nreqs, failed>>

(* ------------------------- middleware.go stages ------------------------ *)
\* LoggingMiddleware: log, call next (the log line after next has no effect)
\* mutant: the wrapper calls the stage after the one it wraps
LoggingMiddleware_skipsNext(p) ==
    /\ AtStage(p, "Logging")
    /\ chain' = [chain EXCEPT ![p] = Tail(Tail(@))]
    /\ hist' = Ran(p, "Logging")
    /\ UNCHANGED <<clock, nticks, refreshTokens, refreshTokensMu, rateLimiter,
                   rateLimiterMu, pc, req, loc, resp, ctx, issued, rotated, removed,
                   checkLog, nreqs, failed>>

LoggingMiddleware(p) ==
    /\ AtStage(p, "Logging")
    /\ chain' = [chain EXCEPT ![p] = Tail(@)]
    /\ hist' = Ran(p, "Logging")
    /\ UNCHANGED <<clock, nticks, refreshTokens, refreshTokensMu, rateLimiter,
                   rateLimiterMu, pc, req, loc, resp, ctx, issued, rotated, removed,
                   checkLog, nreqs, failed>>

\* mutant: OPTIONS is not let through
MethodMiddleware_noPreflight(p) ==
    /\ AtStage(p, "Method")
    /\ hist' = Ran(p, "Method")
    /\ IF req[p].method # Head(chain[p]).arg
       THEN /\ Respond(p, ErrorResp(405, "method not allowed"))
            /\ UNCHANGED chain
       ELSE /\ chain' = [chain EXCEPT ![p] = Tail(@)]
            /\ UNCHANGED <<pc, resp>>
    /\ UNCHANGED <<clock, nticks, refreshTokens, refreshTokensMu, rateLimiter,
                   rateLimiterMu, req, loc, ctx, issued, rotated, removed, checkLog, nreqs,
                   failed>>

\* MethodMiddleware(method): 405 unless r.Method is method or OPTIONS
MethodMiddleware(p) ==
    /\ AtStage(p, "Method")
    /\ hist' = Ran(p, "Method")
    /\ IF req[p].method # Head(chain[p]).arg /\ req[p].method # "OPTIONS"
       THEN /\ Respond(p, ErrorResp(405, "method not allowed"))
            /\ UNCHANGED chain
       ELSE /\ chain' = [chain EXCEPT ![p] = Tail(@)]
            /\ UNCHANGED <<pc, resp>>
    /\ UNCHANGED <<clock, nticks, refreshTokens, refreshTokensMu, rateLimiter,
                   rateLimiterMu, req, loc, ctx, issued, rotated, removed, checkLog, nreqs, failed>>

\* RateLimitMiddleware calls isRateLimited(getIP(r)), whose first statement is
\* rateLimiterMu.Lock()
\* mutant: isRateLimited does not wait for rateLimiterMu
RateLimitMiddleware_noLock(p) ==
    /\ AtStage(p, "RateLimit")
    /\ rateLimiterMu' = rateLimiterMu \cup {p}
    /\ pc' = [pc EXCEPT ![p] = "isRateLimited_fresh"]
    /\ hist' = Ran(p, "RateLimit")
    /\ UNCHANGED <<clock, nticks, refreshTokens, refreshTokensMu, rateLimiter, req,
                   chain, loc, resp, ctx, issued, rotated, removed, checkLog, nreqs, failed>>

RateLimitMiddleware(p) ==
    /\ AtStage(p, "RateLimit")
    /\ rateLimiterMu = {}
    /\ rateLimiterMu' = {p}
    /\ pc' = [pc EXCEPT ![p] = "isRateLimited_fresh"]
    /\ hist' = Ran(p, "RateLimit")
    /\ UNCHANGED <<clock, nticks, refreshTokens, refreshTokensMu, rateLimiter, req,
                   chain, loc, resp, ctx, issued, rotated, removed, checkLog, nreqs, failed>>

\* mutant: a timestamp equal to windowStart is kept
RECURSIVE Fresh_keepsBoundary(_, _)
Fresh_keepsBoundary(window, windowStart) ==
    IF window = <<>> THEN <<>>
    ELSE IF Head(window) >= windowStart
         THEN <<Head(window)>> \o Fresh_keepsBoundary(Tail(window), windowStart)
         ELSE Fresh_keepsBoundary(Tail(window), windowStart)

\* the timestamps of a window that are after windowStart, in order
RECURSIVE Fresh(_, _)
Fresh(window, windowStart) ==
    IF window = <<>> THEN <<>>
    ELSE IF Head(window) > windowStart
         THEN <<Head(window)>> \o Fresh(Tail(window), windowStart)
         ELSE Fresh(Tail(window), windowStart)

\* mutant: now is appended only while the window has room, so a rejected
\* request leaves no timestamp
NewWindow_allowedOnly(window, now) ==
    IF Len(Fresh(window, now - Dur(rateLimitWindow))) < rateLimitMax
    THEN Append(Fresh(window, now - Dur(rateLimitWindow)), now)
    ELSE Fresh(window, now - Dur(rateLimitWindow))

\* the window isRateLimited stores for a client at time now
NewWindow(window, now) == Append(Fresh(window, now - Dur(rateLimitWindow)), now)

\* isRateLimited, holding the lock: now := time.Now(), the loop that keeps the
\* timestamps after windowStart, and the append of now
isRateLimited_fresh(p) ==
    /\ pc[p] = "isRateLimited_fresh"
    /\ loc' = [loc EXCEPT ![p].fresh = NewWindow(rateLimiter[getIP(req[p])], clock)]
    /\ pc' = [pc EXCEPT ![p] = "isRateLimited"]
    /\ UNCHANGED <<clock, nticks, refreshTokens, refreshTokensMu, rateLimiter,
                   rateLimiterMu, req, chain, resp, ctx, issued, hist, rotated,
                   removed, checkLog, nreqs, failed>>

\* mutant: the middleware writes the 429 response but does not return, and
\* calls next
isRateLimited_callsNext(p) ==
    /\ pc[p] = "isRateLimited"
    /\ LET ip == getIP(req[p])
           fresh == loc[p].fresh
           limited == Len(fresh) > rateLimitMax
       IN /\ rateLimiter' = [rateLimiter EXCEPT ![ip] = fresh]
          /\ checkLog' = [checkLog EXCEPT ![ip] =
                            Append(@, [at |-> fresh[Len(fresh)], limited |-> limited])]
          /\ resp' = IF limited
                     THEN [resp EXCEPT ![p] =
                             [ErrorResp(429, "rate limit exceeded - retry in 60s") EXCEPT
                                !.retry_after = "60"]]
                     ELSE resp
          /\ pc' = [pc EXCEPT ![p] = "run"]
          /\ chain' = [chain EXCEPT ![p] = Tail(@)]
          /\ hist' = [hist EXCEPT ![p].limited = limited,
                                  ![p].check = Len(checkLog[ip]) + 1]
    /\ loc' = [loc EXCEPT ![p].fresh = <<>>]
    /\ rateLimiterMu' = {}
    /\ UNCHANGED <<clock, nticks, refreshTokens, refreshTokensMu, req, ctx,
                   issued, rotated, removed, nreqs, failed>>

\* mutant: fresh is stored as the window of every client
isRateLimited_sharedWindow(p) ==
    /\ pc[p] = "isRateLimited"
    /\ LET ip == getIP(req[p])
           fresh == loc[p].fresh
           limited == Len(fresh) > rateLimitMax
       IN /\ rateLimiter' = [c \in ClientIPs |-> fresh]
          /\ checkLog' = [checkLog EXCEPT ![ip] =
                            Append(@, [at |-> fresh[Len(fresh)], limited |-> limited])]
          /\ IF limited
             THEN /\ Respond(p, [ErrorResp(429, "rate limit exceeded - retry in 60s") EXCEPT
                                   !.retry_after = "60"])
                  /\ UNCHANGED chain
             ELSE /\ pc' = [pc EXCEPT ![p] = "run"]
                  /\ chain' = [chain EXCEPT ![p] = Tail(@)]
                  /\ UNCHANGED resp
          /\ hist' = [hist EXCEPT ![p].limited = limited,
                                  ![p].check = Len(checkLog[ip]) + 1]
    /\ loc' = [loc EXCEPT ![p].fresh = <<>>]
    /\ rateLimiterMu' = {}
    /\ UNCHANGED <<clock, nticks, refreshTokens, refreshTokensMu, req, ctx,
                   issued, rotated, removed, nreqs, failed>>

\* isRateLimited, still holding the lock: the store of fresh, the result, the
\* deferred Unlock, and the middleware's decision on the result
isRateLimited(p) ==
    /\ pc[p] = "isRateLimited"
    /\ LET ip == getIP(req[p])
           fresh == loc[p].fresh
           limited == Len(fresh) > rateLimitMax
       IN /\ rateLimiter' = [rateLimiter EXCEPT ![ip] = fresh]
          /\ checkLog' = [checkLog EXCEPT ![ip] =
                            Append(@, [at |-> fresh[Len(fresh)], limited |-> limited])]
          /\ IF limited
             THEN /\ Respond(p, [ErrorResp(429, "rate limit exceeded - retry in 60s") EXCEPT
                                   !.retry_after = "60"])
                  /\ UNCHANGED chain
             ELSE /\ pc' = [pc EXCEPT ![p] = "run"]
                  /\ chain' = [chain EXCEPT ![p] = Tail(@)]
                  /\ UNCHANGED resp
          /\ hist' = [hist EXCEPT ![p].limited = limited,
                                  ![p].check = Len(checkLog[ip]) + 1]
    /\ loc' = [loc EXCEPT ![p].fresh = <<>>]
    /\ rateLimiterMu' = {}
    /\ UNCHANGED <<clock, nticks, refreshTokens, refreshTokensMu, req, ctx,
                   issued, rotated, removed, nreqs, failed>>

\* mutant: a token is also rejected when the ledger holds no refresh token of
\* its user
AuthMiddleware_checksLedger(p) ==
    /\ AtStage(p, "Auth")
    /\ hist' = Ran(p, "Auth")
    /\ IF ~req[p].auth.present
       THEN /\ Respond(p, ErrorResp(401, "authorization header required"))
            /\ UNCHANGED <<chain, ctx>>
       ELSE LET v == validateJWT(TrimBearer(req[p].auth), "access", clock)
            IN IF v.err \/ \A k \in DOMAIN refreshTokens :
                                refreshTokens[k] # v.claims.Username
               THEN /\ Respond(p, ErrorResp(401, "invalid or expired access token"))
                    /\ UNCHANGED <<chain, ctx>>
               ELSE /\ ctx' = [ctx EXCEPT ![p] = v.claims]
                    /\ chain' = [chain EXCEPT ![p] = Tail(@)]
                    /\ UNCHANGED <<pc, resp>>
    /\ UNCHANGED <<clock, nticks, refreshTokens, refreshTokensMu, rateLimiter,
                   rateLimiterMu, req, loc, issued, rotated, removed, checkLog, nreqs, failed>>

\* mutant: a token of the wrong role gets an error message of its own
AuthMiddleware_tellsWhy(p) ==
    /\ AtStage(p, "Auth")
    /\ hist' = Ran(p, "Auth")
    /\ IF ~req[p].auth.present
       THEN /\ Respond(p, ErrorResp(401, "authorization header required"))
            /\ UNCHANGED <<chain, ctx>>
       ELSE LET v == validateJWT(TrimBearer(req[p].auth), "access", clock)
            IN IF v.err
               THEN /\ Respond(p, IF ParseWithClaimsOK(TrimBearer(req[p].auth), clock)
                                  THEN ErrorResp(401, "wrong token type")
                                  ELSE ErrorResp(401, "invalid or expired access token"))
                    /\ UNCHANGED <<chain, ctx>>
               ELSE /\ ctx' = [ctx EXCEPT ![p] = v.claims]
                    /\ chain' = [chain EXCEPT ![p] = Tail(@)]
                    /\ UNCHANGED <<pc, resp>>
    /\ UNCHANGED <<clock, nticks, refreshTokens, refreshTokensMu, rateLimiter,
                   rateLimiterMu, req, loc, issued, rotated, removed, checkLog, nreqs, failed>>

\* AuthMiddleware: 401 without header or with a token validateJWT rejects as
\* an access token; else attach the claims and call next
AuthMiddleware(p) ==
    /\ AtStage(p, "Auth")
    /\ hist' = Ran(p, "Auth")
    /\ IF ~req[p].auth.present
       THEN /\ Respond(p, ErrorResp(401, "authorization header required"))
            /\ UNCHANGED <<chain, ctx>>
       ELSE LET v == validateJWT(TrimBearer(req[p].auth), "access", clock)
            IN IF v.err
               THEN /\ Respond(p, ErrorResp(401, "invalid or expired access token"))
                    /\ UNCHANGED <<chain, ctx>>
               ELSE /\ ctx' = [ctx EXCEPT ![p] = v.claims]
                    /\ chain' = [chain EXCEPT ![p] = Tail(@)]
                    /\ UNCHANGED <<pc, resp>>
    /\ UNCHANGED <<clock, nticks, refreshTokens, refreshTokensMu, rateLimiter,
                   rateLimiterMu, req, loc, issued, rotated, removed, checkLog, nreqs, failed>>

\* a protected operation behind AuthMiddleware (car listing handlers)
getCarsHandler(p) ==
    /\ AtStage(p, "getCarsHandler")
    /\ hist' = Ran(p, "getCarsHandler")
    /\ Respond(p, [NoResp EXCEPT !.code = 200])
    /\ UNCHANGED <<clock, nticks, refreshTokens, refreshTokensMu, rateLimiter,
                   rateLimiterMu, req, chain, loc, ctx, issued, rotated, removed,
                   checkLog, nreqs, failed>>


(* ------------------------------- jwt.go -------------------------------- *)
\* generateTokenPair, access token: claims built and signed at the current time
generateTokenPair_access(p) ==
    /\ pc[p] = "gen_access"
    /\ loc' = [loc EXCEPT ![p].accessToken = AccessTokenAt(loc[p].claims.Username, clock)]
    /\ pc' = [pc EXCEPT ![p] = "gen_refresh"]
    /\ UNCHANGED <<clock, nticks, refreshTokens, refreshTokensMu, rateLimiter,
                   rateLimiterMu, req, chain, resp, ctx, issued, hist, rotated,
                   removed, checkLog, nreqs, failed>>

\* generateTokenPair, refresh token: claims built and signed at the current time
generateTokenPair_refresh(p) ==
    /\ pc[p] = "gen_refresh"
    /\ loc' = [loc EXCEPT ![p].refreshToken = RefreshTokenAt(loc[p].claims.Username, clock)]
    /\ pc' = [pc EXCEPT ![p] = "gen_lock"]
    /\ UNCHANGED <<clock, nticks, refreshTokens, refreshTokensMu, rateLimiter,
                   rateLimiterMu, req, chain, resp, ctx, issued, hist, rotated,
                   removed, checkLog, nreqs, failed>>

\* generateTokenPair: SignedString returns an error for the access token
\* (signing-backend failure); generateTokenPair returns it at once
generateTokenPair_access_err(p) ==
    /\ pc[p] = "gen_access"
    /\ pc' = [pc EXCEPT ![p] = "gen_failed"]
    /\ UNCHANGED <<clock, nticks, refreshTokens, refreshTokensMu, rateLimiter,
                   rateLimiterMu, req, chain, loc, resp, ctx, issued, hist, rotated,
                   removed, checkLog, nreqs, failed>>

\* generateTokenPair: SignedString returns an error for the refresh token;
\* generateTokenPair returns it before the ledger is touched
generateTokenPair_refresh_err(p) ==
    /\ pc[p] = "gen_refresh"
    /\ pc' = [pc EXCEPT ![p] = "gen_failed"]
    /\ UNCHANGED <<clock, nticks, refreshTokens, refreshTokensMu, rateLimiter,
                   rateLimiterMu, req, chain, loc, resp, ctx, issued, hist, rotated,
                   removed, checkLog, nreqs, failed>>

\* generateTokenPair: refreshTokensMu.Lock()
generateTokenPair_Lock(p) ==
    /\ pc[p] = "gen_lock"
    /\ CanLock
    /\ refreshTokensMu' = [refreshTokensMu EXCEPT !.writer = {p}]
    /\ pc' = [pc EXCEPT ![p] = "gen_record"]
    /\ UNCHANGED <<clock, nticks, refreshTokens, rateLimiter, rateLimiterMu, req,
                   chain, loc, resp, ctx, issued, hist, rotated, removed, checkLog, nreqs, failed>>

\* mutant: the ledger entry is made under the access token
generateTokenPair_record_storesAccess(p) ==
    /\ pc[p] = "gen_record"
    /\ LET m == MapSet(refreshTokens, loc[p].accessToken, loc[p].claims.Username)
       IN /\ refreshTokens' = m
          /\ hist' = [hist EXCEPT ![p].changed = @ \/ m # refreshTokens]
    /\ refreshTokensMu' = [refreshTokensMu EXCEPT !.writer = {}]
    /\ pc' = [pc EXCEPT ![p] = "gen_return"]
    /\ UNCHANGED <<clock, nticks, rateLimiter, rateLimiterMu, req, chain, loc, resp,
                   ctx, issued, rotated, removed, checkLog, nreqs, failed>>

\* mutant: generateTokenPair returns without Unlock
generateTokenPair_record_keepsLock(p) ==
    /\ pc[p] = "gen_record"
    /\ LET m == MapSet(refreshTokens, loc[p].refreshToken, loc[p].claims.Username)
       IN /\ refreshTokens' = m
          /\ hist' = [hist EXCEPT ![p].changed = @ \/ m # refreshTokens]
    /\ pc' = [pc EXCEPT ![p] = "gen_return"]
    /\ UNCHANGED <<clock, nticks, refreshTokensMu, rateLimiter, rateLimiterMu, req,
                   chain, loc, resp, ctx, issued, rotated, removed, checkLog, nreqs,
                   failed>>

\* generateTokenPair: refreshTokens[refreshToken] = username, Unlock, return
generateTokenPair_record(p) ==
    /\ pc[p] = "gen_record"
    /\ LET m == MapSet(refreshTokens, loc[p].refreshToken, loc[p].claims.Username)
       IN /\ refreshTokens' = m
          /\ hist' = [hist EXCEPT ![p].changed = @ \/ m # refreshTokens]
    /\ refreshTokensMu' = [refreshTokensMu EXCEPT !.writer = {}]
    /\ pc' = [pc EXCEPT ![p] = "gen_return"]
    /\ UNCHANGED <<clock, nticks, rateLimiter, rateLimiterMu, req, chain, loc, resp,
                   ctx, issued, rotated, removed, checkLog, nreqs, failed>>

(* ------------------------------- auth.go ------------------------------- *)
\* mutant: either field matching is accepted
CredentialsValid_eitherField(creds) ==
    creds.username = demoUsername \/ creds.password = demoPassword

\* the credential check of loginHandler
CredentialsValid(creds) == creds.username = demoUsername /\ creds.password = demoPassword

\* loginHandler up to the call of generateTokenPair(creds.Username)
loginHandler(p) ==
    /\ AtStage(p, "loginHandler")
    /\ hist' = Ran(p, "loginHandler")
    /\ IF ~req[p].body.decodes
       THEN /\ Respond(p, ErrorResp(400, "invalid request body"))
            /\ UNCHANGED loc
       ELSE IF ~CredentialsValid(req[p].body)
            THEN /\ Respond(p, ErrorResp(401, "invalid credentials"))
                 /\ UNCHANGED loc
            ELSE /\ loc' = [loc EXCEPT ![p].claims =
                              [NoClaims EXCEPT !.Username = req[p].body.username]]
                 /\ pc' = [pc EXCEPT ![p] = "gen_access"]
                 /\ UNCHANGED resp
    /\ UNCHANGED <<clock, nticks, refreshTokens, refreshTokensMu, rateLimiter,
                   rateLimiterMu, req, chain, ctx, issued, rotated, removed, checkLog, nreqs, failed>>

\* loginHandler after generateTokenPair returned: respond 200 with the pair
loginHandler_respond(p) ==
    /\ pc[p] = "gen_return"
    /\ Head(chain[p]).mw = "loginHandler"
    /\ Respond(p, LoginResponse(loc[p].accessToken, loc[p].refreshToken,
                                "login successful"))
    /\ UNCHANGED <<clock, nticks, refreshTokens, refreshTokensMu, rateLimiter,
                   rateLimiterMu, req, chain, loc, ctx, issued, hist, rotated, removed,
                   checkLog, nreqs, failed>>

\* loginHandler after generateTokenPair returned an error: respond 500
loginHandler_error(p) ==
    /\ pc[p] = "gen_failed"
    /\ Head(chain[p]).mw = "loginHandler"
    /\ Respond(p, ErrorResp(500, "token generation failed"))
    /\ UNCHANGED <<clock, nticks, refreshTokens, refreshTokensMu, rateLimiter,
                   rateLimiterMu, req, chain, loc, ctx, issued, hist, rotated, removed,
                   checkLog, nreqs, failed>>

\* mutant: the claims validateJWT returned are not kept, so the new pair is
\* issued for the empty user name
refreshHandler_dropsClaims(p) ==
    /\ AtStage(p, "refreshHandler")
    /\ hist' = Ran(p, "refreshHandler")
    /\ IF ~req[p].body.decodes
       THEN /\ Respond(p, ErrorResp(400, "invalid request body"))
            /\ UNCHANGED loc
       ELSE LET v == validateJWT(req[p].body.refresh_token, "refresh", clock)
            IN IF v.err
               THEN /\ Respond(p, ErrorResp(401, "invalid refresh token"))
                    /\ UNCHANGED loc
               ELSE /\ loc' = [loc EXCEPT ![p].claims = NoClaims]
                    /\ pc' = [pc EXCEPT ![p] = "rf_rlock"]
                    /\ UNCHANGED resp
    /\ UNCHANGED <<clock, nticks, refreshTokens, refreshTokensMu, rateLimiter,
                   rateLimiterMu, req, chain, ctx, issued, rotated, removed, checkLog, nreqs, failed>>

\* refreshHandler: decode the body, validateJWT(body.RefreshToken, "refresh")
refreshHandler(p) ==
    /\ AtStage(p, "refreshHandler")
    /\ hist' = Ran(p, "refreshHandler")
    /\ IF ~req[p].body.decodes
       THEN /\ Respond(p, ErrorResp(400, "invalid request body"))
            /\ UNCHANGED loc
       ELSE LET v == validateJWT(req[p].body.refresh_token, "refresh", clock)
            IN IF v.err
               THEN /\ Respond(p, ErrorResp(401, "invalid refresh token"))
                    /\ UNCHANGED loc
               ELSE /\ loc' = [loc EXCEPT ![p].claims = v.claims]
                    /\ pc' = [pc EXCEPT ![p] = "rf_rlock"]
                    /\ UNCHANGED resp
    /\ UNCHANGED <<clock, nticks, refreshTokens, refreshTokensMu, rateLimiter,
                   rateLimiterMu, req, chain, ctx, issued, rotated, removed, checkLog, nreqs, failed>>

\* refreshHandler: refreshTokensMu.RLock()
refreshHandler_RLock(p) ==
    /\ pc[p] = "rf_rlock"
    /\ CanRLock
    /\ refreshTokensMu' = [refreshTokensMu EXCEPT !.readers = @ \cup {p}]
    /\ pc' = [pc EXCEPT ![p] = "rf_exists"]
    /\ UNCHANGED <<clock, nticks, refreshTokens, rateLimiter, rateLimiterMu, req,
                   chain, loc, resp, ctx, issued, hist, rotated, removed, checkLog, nreqs, failed>>

\* refreshHandler: _, exists := refreshTokens[token]; RUnlock; 401 if !exists
refreshHandler_exists(p) ==
    /\ pc[p] = "rf_exists"
    /\ refreshTokensMu' = [refreshTokensMu EXCEPT !.readers = @ \ {p}]
    /\ LET exists == req[p].body.refresh_token \in DOMAIN refreshTokens
       IN /\ loc' = [loc EXCEPT ![p].exists = exists]
          /\ IF ~exists
             THEN Respond(p, ErrorResp(401, "refresh token revoked"))
             ELSE /\ pc' = [pc EXCEPT ![p] = "rf_lock"]
                  /\ UNCHANGED resp
    /\ UNCHANGED <<clock, nticks, refreshTokens, rateLimiter, rateLimiterMu, req,
                   chain, ctx, issued, hist, rotated, removed, checkLog, nreqs, failed>>

\* refreshHandler: refreshTokensMu.Lock()
refreshHandler_Lock(p) ==
    /\ pc[p] = "rf_lock"
    /\ CanLock
    /\ refreshTokensMu' = [refreshTokensMu EXCEPT !.writer = {p}]
    /\ pc' = [pc EXCEPT ![p] = "rf_delete"]
    /\ UNCHANGED <<clock, nticks, refreshTokens, rateLimiter, rateLimiterMu, req,
                   chain, loc, resp, ctx, issued, hist, rotated, removed, checkLog, nreqs, failed>>

\* refreshHandler: delete(refreshTokens, token); Unlock; then generateTokenPair
refreshHandler_delete(p) ==
    /\ pc[p] = "rf_delete"
    /\ LET t == req[p].body.refresh_token
           present == t \in DOMAIN refreshTokens
       IN /\ refreshTokens' = MapDelete(refreshTokens, t)
          /\ removed' = IF present THEN removed \cup {t} ELSE removed
          /\ hist' = [hist EXCEPT ![p].deletedPresent = present,
                                  ![p].changed = @ \/ present]
    /\ refreshTokensMu' = [refreshTokensMu EXCEPT !.writer = {}]
    /\ pc' = [pc EXCEPT ![p] = "gen_access"]
    /\ UNCHANGED <<clock, nticks, rateLimiter, rateLimiterMu, req, chain, loc, resp,
                   ctx, issued, rotated, checkLog, nreqs, failed>>

\* refreshHandler after generateTokenPair returned: respond 200 with the pair
refreshHandler_respond(p) ==
    /\ pc[p] = "gen_return"
    /\ Head(chain[p]).mw = "refreshHandler"
    /\ Respond(p, LoginResponse(loc[p].accessToken, loc[p].refreshToken,
                                "tokens refreshed"))
    /\ rotated' = rotated \cup {req[p].body.refresh_token}
    /\ UNCHANGED <<clock, nticks, refreshTokens, refreshTokensMu, rateLimiter,
                   rateLimiterMu, req, chain, loc, ctx, issued, hist, removed,
                   checkLog, nreqs, failed>>

\* refreshHandler after generateTokenPair returned an error: respond 500
refreshHandler_error(p) ==
    /\ pc[p] = "gen_failed"
    /\ Head(chain[p]).mw = "refreshHandler"
    /\ Respond(p, ErrorResp(500, "token generation failed"))
    /\ failed' = failed \cup {req[p].body.refresh_token}
    /\ UNCHANGED <<clock, nticks, refreshTokens, refreshTokensMu, rateLimiter,
                   rateLimiterMu, req, chain, loc, ctx, issued, hist, rotated, removed,
                   checkLog, nreqs>>

\* logoutHandler: best-effort decode; without a token respond 200 at once,
\* else go on to refreshTokensMu.Lock()
logoutHandler(p) ==
    /\ AtStage(p, "logoutHandler")
    /\ hist' = Ran(p, "logoutHandler")
    /\ IF req[p].body.refresh_token # EmptyString
       THEN /\ pc' = [pc EXCEPT ![p] = "lo_lock"]
            /\ UNCHANGED resp
       ELSE Respond(p, [NoResp EXCEPT !.code = 200, !.message = "logged out"])
    /\ UNCHANGED <<clock, nticks, refreshTokens, refreshTokensMu, rateLimiter,
                   rateLimiterMu, req, chain, loc, ctx, issued, rotated, removed,
                   checkLog, nreqs, failed>>

\* logoutHandler: refreshTokensMu.Lock()
logoutHandler_Lock(p) ==
    /\ pc[p] = "lo_lock"
    /\ CanLock
    /\ refreshTokensMu' = [refreshTokensMu EXCEPT !.writer = {p}]
    /\ pc' = [pc EXCEPT ![p] = "lo_delete"]
    /\ UNCHANGED <<clock, nticks, refreshTokens, rateLimiter, rateLimiterMu, req,
                   chain, loc, resp, ctx, issued, hist, rotated, removed, checkLog, nreqs, failed>>

\* mutant: every refresh token of the token's user is removed with it
logoutHandler_delete_wholeSubject(p) ==
    /\ pc[p] = "lo_delete"
    /\ LET t == req[p].body.refresh_token
           present == t \in DOMAIN refreshTokens
           gone == IF present
                   THEN {k \in DOMAIN refreshTokens : refreshTokens[k] = refreshTokens[t]}
                   ELSE {}
       IN /\ refreshTokens' = [k \in DOMAIN refreshTokens \ gone |-> refreshTokens[k]]
          /\ removed' = removed \cup gone
          /\ hist' = [hist EXCEPT ![p].changed = @ \/ present]
    /\ refreshTokensMu' = [refreshTokensMu EXCEPT !.writer = {}]
    /\ Respond(p, [NoResp EXCEPT !.code = 200, !.message = "logged out"])
    /\ UNCHANGED <<clock, nticks, rateLimiter, rateLimiterMu, req, chain, loc, ctx,
                   issued, rotated, checkLog, nreqs, failed>>

\* mutant: a token that is not in the ledger is reported as an error
logoutHandler_delete_absentIsError(p) ==
    /\ pc[p] = "lo_delete"
    /\ LET t == req[p].body.refresh_token
           present == t \in DOMAIN refreshTokens
       IN /\ refreshTokens' = MapDelete(refreshTokens, t)
          /\ removed' = IF present THEN removed \cup {t} ELSE removed
          /\ hist' = [hist EXCEPT ![p].changed = @ \/ present]
          /\ IF present
             THEN Respond(p, [NoResp EXCEPT !.code = 200, !.message = "logged out"])
             ELSE Respond(p, ErrorResp(401, "refresh token revoked"))
    /\ refreshTokensMu' = [refreshTokensMu EXCEPT !.writer = {}]
    /\ UNCHANGED <<clock, nticks, rateLimiter, rateLimiterMu, req, chain, loc, ctx,
                   issued, rotated, checkLog, nreqs, failed>>

\* logoutHandler: delete(refreshTokens, token); Unlock; respond 200
logoutHandler_delete(p) ==
    /\ pc[p] = "lo_delete"
    /\ LET t == req[p].body.refresh_token
           present == t \in DOMAIN refreshTokens
       IN /\ refreshTokens' = MapDelete(refreshTokens, t)
          /\ removed' = IF present THEN removed \cup {t} ELSE removed
          /\ hist' = [hist EXCEPT ![p].changed = @ \/ present]
    /\ refreshTokensMu' = [refreshTokensMu EXCEPT !.writer = {}]
    /\ Respond(p, [NoResp EXCEPT !.code = 200, !.message = "logged out"])
    /\ UNCHANGED <<clock, nticks, rateLimiter, rateLimiterMu, req, chain, loc, ctx,
                   issued, rotated, checkLog, nreqs, failed>>


(* ---------------- specification: the session authority ----------------- *)
\* Concurrent calls of the three auth handlers, each handler function called
\* as Chain(h) without middleware, with the clock advancing tick by tick.

LoginBodies ==
    {Body(TRUE, demoUsername, demoPassword, EmptyString),
     Body(TRUE, demoUsername, "wrong", EmptyString),
     NoBody}

\* bodies carrying a token the client holds, no token, or no JSON at all
IssuedAs(tokenType) == {t \in issued : t.claims.TokenType = tokenType}
TokenBodies ==
    {Body(TRUE, "", "", t) : t \in IssuedAs("refresh") \cup {EmptyString}} \cup {NoBody}

StartAuth(p, maxReqs) ==
    \E h \in {"loginHandler", "refreshHandler", "logoutHandler"} :
      \E b \in (IF h = "loginHandler" THEN LoginBodies ELSE TokenBodies) :
        Start(p, [NoReq EXCEPT !.method = "POST", !.body = b], Chain(Handler(h), <<>>),
              maxReqs)

TickAuth == Tick(1, MaxTicksAuth)

NextAuth(maxReqs) ==
    \/ TickAuth
    \/ \E p \in Procs : StartAuth(p, maxReqs)
    \/ \E p \in Procs : loginHandler(p)
    \/ \E p \in Procs : loginHandler_respond(p)
    \/ \E p \in Procs : refreshHandler(p)
    \/ \E p \in Procs : refreshHandler_RLock(p)
    \/ \E p \in Procs : refreshHandler_exists(p)
    \/ \E p \in Procs : refreshHandler_Lock(p)
    \/ \E p \in Procs : refreshHandler_delete(p)
    \/ \E p \in Procs : refreshHandler_respond(p)
    \/ \E p \in Procs : logoutHandler(p)
    \/ \E p \in Procs : logoutHandler_Lock(p)
    \/ \E p \in Procs : logoutHandler_delete(p)
    \/ \E p \in Procs : generateTokenPair_access(p)
    \/ \E p \in Procs : generateTokenPair_refresh(p)
    \/ \E p \in Procs : generateTokenPair_Lock(p)
    \/ \E p \in Procs : generateTokenPair_record(p)
    \/ \E p \in Procs : Finish(p)

\* behaviours of up to MaxReqsAuth requests
SpecAuth == Init /\ [][NextAuth(MaxReqsAuth)]_vars

\* behaviours of up to MaxReqsPair requests
SpecAuthPair == Init /\ [][NextAuth(MaxReqsPair)]_vars


(* ------------------------------ claims --------------------------------- *)
\* the body carries the demo account's user name and password
DemoCredentials(b) ==
    b.decodes /\ b.username = "seller" /\ b.password = "carmarket123"

\* the handler a request is routed to (innermost stage of its chain)
HandlerOf(p) == IF chain[p] = <<>> THEN "" ELSE chain[p][Len(chain[p])].mw

\* goroutine p has answered a call of handler h
Answered(p, h) == pc[p] = "done" /\ HandlerOf(p) = h

\* goroutine p has answered a Rotate with a new token pair
RotateOK(p) == Answered(p, "refreshHandler") /\ resp[p].code = 200

Revoked == ErrorResp(401, "refresh token revoked")

\* the requests of p and q overlapped in time
Concurrent(p, q) == q \in hist[p].overlapped \/ p \in hist[q].overlapped

\* C1: of two concurrent refreshHandler requests for the same refresh token,
\* which was in the ledger when each of them started, at most one is answered
\* with a new token pair and the other is answered 'refresh token revoked'.
C1_OneOfTwoConcurrentRotationsWins ==
    \A p, q \in Procs :
        ( /\ p # q
          /\ Answered(p, "refreshHandler") /\ Answered(q, "refreshHandler")
          /\ req[p].body.refresh_token = req[q].body.refresh_token
          /\ hist[p].inLedgerAtStart /\ hist[q].inLedgerAtStart
          /\ Concurrent(p, q) )
        => (resp[p] = Revoked \/ resp[q] = Revoked)

\* C2: a Rotate(t) that starts after some Rotate(t) was answered 200 is
\* answered 401 'refresh token revoked'.
C2_SecondRotateIsRevoked ==
    \A p \in Procs :
        (Answered(p, "refreshHandler") /\ hist[p].afterRotate) => resp[p] = Revoked

\* C3: a refresh token that was deleted from the ledger (by Logout or by
\* Rotate) is never in the ledger again.
C3_RemovedNeverReturns == \A t \in removed : t \notin DOMAIN refreshTokens

\* C4: a Rotate(t) answered 200 returns a refresh token different from t.
C4_RotateReturnsDifferentToken ==
    \A p \in Procs : RotateOK(p) => resp[p].refresh_token # req[p].body.refresh_token

\* C5: a Rotate(t) answered 200 deleted an entry that was still in the ledger
\* at the moment of its deletion (no Logout(t) had removed it in between).
C5_RotateDeletesPresentEntry == \A p \in Procs : RotateOK(p) => hist[p].deletedPresent


\* C9: when loginHandler answers a Login with valid credentials it answers 200
\* with an access and a refresh token for the subject, expires_in 900, and at
\* that moment the returned refresh token is in the ledger mapped to the subject.
C9_LoginReturnsRecordedPair ==
    [][\A p \in Procs :
          (loginHandler_respond(p) /\ DemoCredentials(req[p].body)) =>
             LET s == req[p].body.username
                 r == resp'[p]
             IN /\ r.code = 200
                /\ r.expires_in = 900
                /\ IsJWT(r.access_token) /\ IsJWT(r.refresh_token)
                /\ r.access_token.claims.Username = s
                /\ r.access_token.claims.TokenType = "access"
                /\ r.refresh_token.claims.Username = s
                /\ r.refresh_token.claims.TokenType = "refresh"
                /\ r.refresh_token \in DOMAIN refreshTokens'
                /\ refreshTokens'[r.refresh_token] = s]_vars

\* C10: a Login with invalid credentials is answered 401, one with an
\* undecodable body 400; no token is issued and the request leaves the ledger
\* as it is.
C10_FailedLoginChangesNothing ==
    \A p \in Procs :
        (Answered(p, "loginHandler") /\ ~DemoCredentials(req[p].body))
        => /\ resp[p] = IF req[p].body.decodes
                        THEN ErrorResp(401, "invalid credentials")
                        ELSE ErrorResp(400, "invalid request body")
           /\ loc[p].accessToken = EmptyString /\ loc[p].refreshToken = EmptyString
           /\ ~hist[p].changed

\* a Login with a wrong password has been answered while the ledger is not empty
C10_Witness ==
    \E p \in Procs :
        /\ Answered(p, "loginHandler")
        /\ req[p].body.decodes /\ req[p].body.username = "seller"
        /\ ~DemoCredentials(req[p].body)
        /\ resp[p].code = 401
        /\ DOMAIN refreshTokens # {}


(* ------------------- specification: the rate limiter ------------------- *)
\* Requests to /api/login, one at a time, from two clients (one seen through
\* RemoteAddr, one through X-Forwarded-For), none of which logs in; the clock
\* advances by a tick, by a window, or by a window less a tick.

RateRequests ==
    {[NoReq EXCEPT !.route = "login", !.method = m, !.remote = RemoteClient, !.xff = x] :
        m \in {"POST"}, x \in {<<>>, <<ForwardedClient, RemoteClient>>}}

StartRate == \E r \in RateRequests : Start(1, r, Routes[r.route], MaxReqsRate)

TickRate ==
    \E d \in {Dur(rateLimitWindow) - 1, Dur(rateLimitWindow)} : Tick(d, MaxTicksRate)

NextRate ==
    \/ TickRate
    \/ StartRate
    \/ LoggingMiddleware(1)
    \/ RateLimitMiddleware(1)
    \/ isRateLimited_fresh(1)
    \/ isRateLimited(1)
    \/ MethodMiddleware(1)
    \/ loginHandler(1)
    \/ Finish(1)

SpecRate == Init /\ [][NextRate]_vars

\* check i of a client's log found the client's window empty: every earlier
\* check lies a full window or more before it
FromEmptyWindow(log, i) ==
    \A j \in 1..(i - 1) : log[j].at + Dur(rateLimitWindow) <= log[i].at

\* checks i..i+rateLimitMax of a log exist and lie inside one window
Burst(log, i) ==
    /\ i + rateLimitMax <= Len(log)
    /\ log[i + rateLimitMax].at < log[i].at + Dur(rateLimitWindow)

\* C6: of a burst of rateLimitMax+1 checks of one client inside one window that
\* starts from an empty window, the first rateLimitMax are allowed and the last
\* is rejected, and the middleware answers 429 exactly for a rejected check; a
\* check that comes a full window or more after the client's previous check is
\* allowed.
C6_BurstThenWindowElapsed ==
    /\ \A ip \in ClientIPs :
         LET log == checkLog[ip]
         IN /\ \A i \in 1..Len(log) :
                 (FromEmptyWindow(log, i) /\ Burst(log, i)) =>
                    /\ \A k \in 0..(rateLimitMax - 1) : ~log[i + k].limited
                    /\ log[i + rateLimitMax].limited
            /\ \A j \in 2..Len(log) :
                 (log[j - 1].at + Dur(rateLimitWindow) <= log[j].at) => ~log[j].limited
    /\ \A p \in Procs :
         (pc[p] = "done" /\ HandlerOf(p) = "loginHandler") =>
            /\ (resp[p].code = 429) = hist[p].limited
            /\ hist[p].limited =>
                 /\ resp[p].retry_after = "60"
                 /\ hist[p].invoked = <<"Logging", "RateLimit">>

\* a client's burst of rateLimitMax+1 checks from an empty window was followed,
\* a full window later, by a further check of that client
C6_Witness ==
    \E ip \in ClientIPs :
        LET log == checkLog[ip]
        IN \E i \in 1..Len(log) :
              /\ FromEmptyWindow(log, i) /\ Burst(log, i)
              /\ log[i + rateLimitMax].limited
              /\ Len(log) = i + rateLimitMax + 1
              /\ log[Len(log) - 1].at + Dur(rateLimitWindow) <= log[Len(log)].at
              /\ ~log[Len(log)].limited

\* C7: the window stored for a client never holds more than rateLimitMax
\* timestamps.
C7_StoredWindowAtMostMax == \A ip \in ClientIPs : Len(rateLimiter[ip]) <= rateLimitMax


(* ------------------ specification: the routed pipeline ----------------- *)
\* Requests to the routes of main(), one at a time, from one client, carrying
\* tokens the client has received or forged; the clock advances by a tick or by
\* the access token lifetime.

\* tokens an attacker can make without the secret: signed with another key, or
\* unsigned with alg "none"
ForgedTokens ==
    LET claims == NewClaims(demoUsername, "access", accessTokenTTL, clock)
    IN {SignedString("HS256", claims, "attacker-key"), SignedString("none", claims, "")}

PipeRequests ==
    LET base == [NoReq EXCEPT !.remote = RemoteClient]
    IN {[base EXCEPT !.route = "login", !.method = "POST",
                     !.body = Body(TRUE, demoUsername, demoPassword, EmptyString)]}
       \cup {[base EXCEPT !.route = "refresh", !.method = "POST",
                          !.body = Body(TRUE, "", "", t)] : t \in issued \cup ForgedTokens}
       \cup {[base EXCEPT !.route = "cars", !.method = "GET", !.auth = h] :
                h \in {NoHeader} \cup {Header(TRUE, t) : t \in issued \cup ForgedTokens}}
       \cup {[base EXCEPT !.route = "logout", !.method = m, !.auth = h,
                          !.body = Body(TRUE, "", "", t)] :
                m \in {"POST", "GET"},
                h \in {NoHeader} \cup {Header(TRUE, a) : a \in IssuedAs("access")},
                t \in IssuedAs("refresh")}

StartRouted == \E r \in PipeRequests : Start(1, r, Routes[r.route], MaxReqsPipe)

TickRouted == \E d \in {1, Dur(accessTokenTTL)} : Tick(d, MaxTicksPipe)

Next ==
    \/ TickRouted
    \/ StartRouted
    \/ LoggingMiddleware(1)
    \/ RateLimitMiddleware(1)
    \/ isRateLimited_fresh(1)
    \/ isRateLimited(1)
    \/ AuthMiddleware(1)
    \/ MethodMiddleware(1)
    \/ getCarsHandler(1)
    \/ loginHandler(1)
    \/ loginHandler_respond(1)
    \/ refreshHandler(1)
    \/ refreshHandler_RLock(1)
    \/ refreshHandler_exists(1)
    \/ refreshHandler_Lock(1)
    \/ refreshHandler_delete(1)
    \/ refreshHandler_respond(1)
    \/ logoutHandler(1)
    \/ logoutHandler_Lock(1)
    \/ logoutHandler_delete(1)
    \/ generateTokenPair_access(1)
    \/ generateTokenPair_refresh(1)
    \/ generateTokenPair_Lock(1)
    \/ generateTokenPair_record(1)
    \/ Finish(1)

Spec == Init /\ [][Next]_vars

\* token t is signed with the server's secret, is not expired now, and has the role
ValidUnexpired(t, role) == ParseWithClaimsOK(t, clock) /\ t.claims.TokenType = role

\* C8: AuthMiddleware answers a request whose bearer token is a validly signed,
\* unexpired refresh token with 401 and runs no later stage; refreshHandler
\* answers a validly signed, unexpired access token with 401 and leaves the
\* ledger as it is.
C8_RolesAreNotInterchangeable ==
    [][\A p \in Procs :
          /\ (AuthMiddleware(p) /\ req[p].auth.present
                /\ ValidUnexpired(TrimBearer(req[p].auth), "refresh")) =>
                /\ resp'[p].code = 401
                /\ pc'[p] = "done"
                /\ ctx'[p] = NoClaims
          /\ (refreshHandler(p) /\ req[p].body.decodes
                /\ ValidUnexpired(req[p].body.refresh_token, "access")) =>
                /\ resp'[p].code = 401
                /\ pc'[p] = "done"
                /\ refreshTokens' = refreshTokens
                /\ ~hist'[p].changed]_vars

\* a request to a protected route carrying a valid, unexpired refresh token as
\* its bearer credential has been answered 401 before the route's handler ran
C8_Witness ==
    \E p \in Procs :
        /\ pc[p] = "done"
        /\ HandlerOf(p) = "getCarsHandler"
        /\ req[p].auth.present
        /\ ValidUnexpired(TrimBearer(req[p].auth), "refresh")
        /\ TrimBearer(req[p].auth) \in DOMAIN refreshTokens
        /\ resp[p].code = 401
        /\ hist[p].invoked = <<"Logging", "Auth">>


(* -------------------- specification: token expiry ---------------------- *)
\* Requests to /api/login, /api/refresh and /api/cars, one at a time, from one
\* client, carrying tokens the client has received or forged; the clock
\* advances by a tick, by the access token lifetime or by the refresh token
\* lifetime.

\* forged tokens: a refresh token with a full lifetime, an access token whose
\* exp is the current second
ExpiryForgedTokens ==
    {SignedString("HS256", NewClaims(demoUsername, "refresh", refreshTokenTTL, clock),
                  "attacker-key"),
     SignedString("HS256", NewClaims(demoUsername, "access", 0, clock), "attacker-key")}

ExpiryTokens == issued \cup ExpiryForgedTokens

ExpiryRequests ==
    LET base == [NoReq EXCEPT !.remote = RemoteClient]
    IN {[base EXCEPT !.route = "login", !.method = "POST",
                     !.body = Body(TRUE, demoUsername, demoPassword, EmptyString)]}
       \cup {[base EXCEPT !.route = "refresh", !.method = "POST",
                          !.body = Body(TRUE, "", "", t)] : t \in ExpiryTokens}
       \cup {[base EXCEPT !.route = "cars", !.method = "GET", !.auth = Header(TRUE, t)] :
                t \in ExpiryTokens}

StartExpiry == \E r \in ExpiryRequests : Start(1, r, Routes[r.route], MaxReqsExpiry)

TickExpiry ==
    \E d \in {1, Dur(accessTokenTTL), Dur(refreshTokenTTL)} : Tick(d, MaxTicksExpiry)

NextExpiry ==
    \/ TickExpiry
    \/ StartExpiry
    \/ LoggingMiddleware(1)
    \/ RateLimitMiddleware(1)
    \/ isRateLimited_fresh(1)
    \/ isRateLimited(1)
    \/ AuthMiddleware(1)
    \/ MethodMiddleware(1)
    \/ getCarsHandler(1)
    \/ loginHandler(1)
    \/ loginHandler_respond(1)
    \/ refreshHandler(1)
    \/ refreshHandler_RLock(1)
    \/ refreshHandler_exists(1)
    \/ refreshHandler_Lock(1)
    \/ refreshHandler_delete(1)
    \/ refreshHandler_respond(1)
    \/ generateTokenPair_access(1)
    \/ generateTokenPair_refresh(1)
    \/ generateTokenPair_Lock(1)
    \/ generateTokenPair_record(1)
    \/ Finish(1)

SpecExpiry == Init /\ [][NextExpiry]_vars

\* the server's signature over the token's header and claims
GenuineSig(t) ==
    /\ IsJWT(t)
    /\ t.alg = "HS256"
    /\ t.sig = [key |-> "apex-motors-secret-change-in-production", alg |-> t.alg,
                claims |-> t.claims]

\* the current time is at or past the token's expires-at
ExpiredNow(t) == IsJWT(t) /\ clock >= t.claims.ExpiresAt * TicksPerSec

\* the token passes signature, expiry and role verification for the role
Verifies(t, role) == GenuineSig(t) /\ ~ExpiredNow(t) /\ t.claims.TokenType = role

InvalidRefreshToken == ErrorResp(401, "invalid refresh token")

\* C11: refreshHandler answers a decoded request whose token fails signature,
\* expiry or role verification with 401 'invalid refresh token', whether or not
\* the token is in the ledger; a token that passed verification and is found
\* absent from the ledger is answered 401 'refresh token revoked'; both steps
\* leave the ledger as it is, so an expired token that is in the ledger stays
\* there.
C11_VerifyThenLedger ==
    [][\A p \in Procs :
          /\ (refreshHandler(p) /\ req[p].body.decodes
                /\ ~Verifies(req[p].body.refresh_token, "refresh")) =>
                /\ resp'[p] = InvalidRefreshToken
                /\ pc'[p] = "done"
                /\ refreshTokens' = refreshTokens
          /\ (refreshHandler_exists(p)
                /\ req[p].body.refresh_token \notin DOMAIN refreshTokens) =>
                /\ resp'[p] = Revoked
                /\ pc'[p] = "done"
                /\ GenuineSig(req[p].body.refresh_token)
                /\ req[p].body.refresh_token.claims.TokenType = "refresh"
                /\ refreshTokens' = refreshTokens]_vars

\* a Rotate of an expired refresh token that is in the ledger has been answered
\* 401 'invalid refresh token' and the token is still in the ledger
C11_Witness ==
    \E p \in Procs :
        /\ Answered(p, "refreshHandler")
        /\ GenuineSig(req[p].body.refresh_token)
        /\ req[p].body.refresh_token.claims.TokenType = "refresh"
        /\ ExpiredNow(req[p].body.refresh_token)
        /\ req[p].body.refresh_token \in DOMAIN refreshTokens
        /\ resp[p] = InvalidRefreshToken
        /\ ~hist[p].changed


(* ------- specification: the handlers, one call at a time, with --------- *)
(* ------------------------ signing failures ----------------------------- *)
\* The three auth handlers called as Chain(h), one request at a time; a
\* SignedString call of generateTokenPair may return an error; Decode may
\* return an error after it has stored a refresh_token (a later member of the
\* JSON object has the wrong type).

\* bodies Decode rejects although it has read a token the client holds
PartialBodies == {Body(FALSE, "", "", t) : t \in IssuedAs("refresh")}

StartSeq ==
    \E h \in {"loginHandler", "refreshHandler", "logoutHandler"} :
      \E b \in (CASE h = "loginHandler" -> LoginBodies
                  [] h = "refreshHandler" -> TokenBodies
                  [] OTHER -> TokenBodies \cup PartialBodies) :
        Start(1, [NoReq EXCEPT !.method = "POST", !.body = b], Chain(Handler(h), <<>>),
              MaxReqsSeq)

TickSeq == Tick(1, MaxTicksSeq)

NextSeq ==
    \/ TickSeq
    \/ StartSeq
    \/ loginHandler(1)
    \/ loginHandler_respond(1)
    \/ loginHandler_error(1)
    \/ refreshHandler(1)
    \/ refreshHandler_RLock(1)
    \/ refreshHandler_exists(1)
    \/ refreshHandler_Lock(1)
    \/ refreshHandler_delete(1)
    \/ refreshHandler_respond(1)
    \/ refreshHandler_error(1)
    \/ logoutHandler(1)
    \/ logoutHandler_Lock(1)
    \/ logoutHandler_delete(1)
    \/ generateTokenPair_access(1)
    \/ generateTokenPair_access_err(1)
    \/ generateTokenPair_refresh(1)
    \/ generateTokenPair_refresh_err(1)
    \/ generateTokenPair_Lock(1)
    \/ generateTokenPair_record(1)
    \/ Finish(1)

SpecSeq == Init /\ [][NextSeq]_vars

\* C12: a Rotate(t) whose issuance fails is answered 500 after t was deleted
\* and before any new refresh token is recorded: t is then absent from the
\* ledger, the ledger holds no token it did not hold before, and a Rotate(t)
\* that starts after such a failure is never answered with a new token pair.
C12_FailedRotateStillEndsToken ==
    \A p \in Procs :
        /\ (Answered(p, "refreshHandler") /\ resp[p].code = 500) =>
              /\ resp[p] = ErrorResp(500, "token generation failed")
              /\ req[p].body.refresh_token \notin DOMAIN refreshTokens
              /\ loc[p].refreshToken \notin DOMAIN refreshTokens
        /\ (Answered(p, "refreshHandler") /\ hist[p].afterFailed) => resp[p].code # 200


\* goroutine p, serving a call of handler h, writes its response in this step
Answers(p, h) == HandlerOf(p) = h /\ pc[p] # "done" /\ pc'[p] = "done"

LoggedOut == [NoResp EXCEPT !.code = 200, !.message = "logged out"]

\* C13: logoutHandler always answers 200; when the body is missing or
\* malformed (Decode returns an error), carries an empty refresh token or names
\* a token that is not in the ledger, the ledger is left as it is; after a
\* Logout(t), t is not in the ledger, so a second Logout(t) changes nothing.
C13_LogoutAlwaysSucceeds ==
    [][\A p \in Procs :
          Answers(p, "logoutHandler") =>
             LET t == req[p].body.refresh_token
             IN /\ resp'[p] = LoggedOut
                /\ (~req[p].body.decodes \/ t = EmptyString
                      \/ t \notin DOMAIN refreshTokens) => refreshTokens' = refreshTokens
                /\ t \notin DOMAIN refreshTokens']_vars

\* C13 (amended): logoutHandler always answers 200; when the refresh token
\* Decode left in the body is empty (body missing, not JSON, or without a
\* token) or is not in the ledger, the ledger is left as it is; after a
\* Logout(t), t is not in the ledger, so a second Logout(t) changes nothing.
C13_LogoutSucceedsOnWhatWasDecoded ==
    [][\A p \in Procs :
          Answers(p, "logoutHandler") =>
             LET t == req[p].body.refresh_token
             IN /\ resp'[p] = LoggedOut
                /\ (req[p].body = NoBody \/ t = EmptyString
                      \/ t \notin DOMAIN refreshTokens) => refreshTokens' = refreshTokens
                /\ t \notin DOMAIN refreshTokens']_vars

\* a second Logout(t), of a token an earlier call removed, has been answered
\* 200 and has not changed the ledger
C13_Witness ==
    \E p \in Procs :
        /\ Answered(p, "logoutHandler")
        /\ req[p].body.refresh_token \in removed
        /\ ~hist[p].inLedgerAtStart
        /\ ~hist[p].changed
        /\ resp[p] = LoggedOut


\* t is a token of the role that the server issued at least ttl seconds ago
\* (its issue time is not before the start of the second in its iat claim)
LifetimeOver(t, role, ttl) ==
    /\ t \in issued
    /\ t.claims.TokenType = role
    /\ clock >= (t.claims.IssuedAt + ttl) * TicksPerSec

\* C14: a token whose expires-at is at or before the current time is rejected,
\* with a genuine signature or a forged one: AuthMiddleware answers it with 401
\* and runs no later stage, refreshHandler answers it 401 'invalid refresh
\* token'; so is an issued access token 900 s or more after its issue time by
\* AuthMiddleware and an issued refresh token 604800 s or more after its issue
\* time by refreshHandler.
C14_ExpiredIsRejected ==
    [][\A p \in Procs :
          /\ (AuthMiddleware(p) /\ req[p].auth.present
                /\ (ExpiredNow(TrimBearer(req[p].auth))
                      \/ LifetimeOver(TrimBearer(req[p].auth), "access", 900))) =>
                /\ resp'[p] = ErrorResp(401, "invalid or expired access token")
                /\ pc'[p] = "done"
                /\ ctx'[p] = NoClaims
          /\ (refreshHandler(p) /\ req[p].body.decodes
                /\ (ExpiredNow(req[p].body.refresh_token)
                      \/ LifetimeOver(req[p].body.refresh_token, "refresh", 604800))) =>
                /\ resp'[p] = InvalidRefreshToken
                /\ pc'[p] = "done"]_vars

\* a request carrying an access token the server issued exactly 900 s earlier
\* has been answered 401 by AuthMiddleware
C14_Witness ==
    \E p \in Procs :
        /\ pc[p] = "done"
        /\ HandlerOf(p) = "getCarsHandler"
        /\ GenuineSig(TrimBearer(req[p].auth))
        /\ LifetimeOver(TrimBearer(req[p].auth), "access", 900)
        /\ clock = TrimBearer(req[p].auth).claims.ExpiresAt * TicksPerSec
        /\ resp[p].code = 401
        /\ hist[p].invoked = <<"Logging", "Auth">>


TokenRoles == {"access", "refresh"}

\* why verification of t for the role must fail, if it must: the signature is
\* not the server's, else the token is expired, else its role is another one
Cause(t, role) ==
    CASE ~GenuineSig(t) -> "InvalidSignature"
      [] ExpiredNow(t) -> "Expired"
      [] t.claims.TokenType # role -> "WrongRole"
      [] OTHER -> "None"

\* C15: validateJWT fails on a token with a wrong signature, on an expired
\* token and on a token of the wrong role, and the errors it returns for two
\* different causes are different.
C15_ThreeDistinctErrors ==
    \A t1, t2 \in ExpiryTokens : \A r1, r2 \in TokenRoles :
        LET v1 == validateJWT(t1, r1, clock)
            v2 == validateJWT(t2, r2, clock)
        IN /\ (Cause(t1, r1) # "None") = v1.err
           /\ (Cause(t1, r1) # "None" /\ Cause(t2, r2) # "None"
                 /\ Cause(t1, r1) # Cause(t2, r2)) => v1.error # v2.error

\* C15 (amended): validateJWT fails on a token with a wrong signature, on an
\* expired token and on a token of the wrong role, in each case with the same
\* error jwt.ErrTokenInvalidClaims and without claims; on any other token it
\* returns the token's claims and no error.
C15_OneErrorForEveryCause ==
    \A t \in ExpiryTokens : \A r \in TokenRoles :
        LET v == validateJWT(t, r, clock)
        IN IF Cause(t, r) = "None"
           THEN v.error = "" /\ ~v.err /\ v.claims = t.claims
           ELSE v.error = "token has invalid claims" /\ v.err /\ v.claims = NoClaims

\* tokens failing for each of the three causes are at hand, and AuthMiddleware
\* has answered a request carrying an expired access token of the server
C15_Witness ==
    /\ \A c \in {"InvalidSignature", "Expired", "WrongRole"} :
          \E t \in ExpiryTokens : Cause(t, "access") = c
    /\ \E p \in Procs :
          /\ pc[p] = "done"
          /\ HandlerOf(p) = "getCarsHandler"
          /\ req[p].auth.present
          /\ Cause(TrimBearer(req[p].auth), "access") = "Expired"
          /\ resp[p].code = 401


\* the identity validateJWT returns for token t verified now as the role, for
\* subject s
Identity(s, role, t) ==
    [err |-> FALSE, error |-> "",
     claims |-> [Username |-> s, TokenType |-> role,
                 ExpiresAt |-> t.claims.ExpiresAt, IssuedAt |-> t.claims.IssuedAt]]

\* C16: while a Login of subject s that was answered 200 has its response at
\* hand, validateJWT of the returned access token as "access", before the
\* token's expiry, returns claims with subject s and role access, and
\* validateJWT of the returned refresh token as "refresh" returns claims with
\* subject s.
C16_LoginRoundTrip ==
    \A p \in Procs :
        (Answered(p, "loginHandler") /\ resp[p].code = 200) =>
            LET s == req[p].body.username
                a == resp[p].access_token
                r == resp[p].refresh_token
            IN /\ IsJWT(a) /\ IsJWT(r)
               /\ ~ExpiredNow(a) => validateJWT(a, "access", clock) = Identity(s, "access", a)
               /\ ~ExpiredNow(r) => validateJWT(r, "refresh", clock) = Identity(s, "refresh", r)

\* the pair returned by a Login is verified later than it was issued: time has
\* passed, the access token is not yet expired
C16_Witness ==
    \E p \in Procs :
        /\ Answered(p, "loginHandler")
        /\ resp[p].code = 200
        /\ req[p].body.username = "seller"
        /\ clock > resp[p].access_token.claims.IssuedAt * TicksPerSec
        /\ ~ExpiredNow(resp[p].access_token)


\* the stages of each route in the order main() declares them: the logging
\* wrapper, the middlewares listed in Chain, the handler
DeclaredOrder ==
    [login   |-> <<"Logging", "RateLimit", "Method", "loginHandler">>,
     refresh |-> <<"Logging", "RateLimit", "Method", "refreshHandler">>,
     logout  |-> <<"Logging", "Auth", "Method", "logoutHandler">>,
     cars    |-> <<"Logging", "Auth", "Method", "getCarsHandler">>]

Range(a) == {a[i] : i \in 1..Len(a)}

IsPrefix(a, b) == Len(a) <= Len(b) /\ \A i \in 1..Len(a) : a[i] = b[i]

\* C17: the stages a request has run so far are an initial part of its route's
\* declared order: the first middleware listed runs first, the handler runs
\* only after every middleware before it has run and called its next stage,
\* and a request answered without its handler having run was answered by the
\* guard middleware that ran last.
C17_DeclaredOrderIsExecutionOrder ==
    \A p \in Procs :
        pc[p] # "idle" =>
            /\ IsPrefix(hist[p].invoked, DeclaredOrder[req[p].route])
            /\ (pc[p] = "done" /\ HandlerOf(p) \notin Range(hist[p].invoked)) =>
                  /\ hist[p].invoked # <<>>
                  /\ hist[p].invoked[Len(hist[p].invoked)] \in {"Auth", "Method", "RateLimit"}
                  /\ resp[p].code \in {401, 405, 429}

\* a request to /api/logout with a valid access token and method GET passed
\* the logging and auth stages and was answered 405 by the method stage, the
\* handler not having run
C17_Witness ==
    \E p \in Procs :
        /\ pc[p] = "done"
        /\ req[p].route = "logout"
        /\ req[p].method = "GET"
        /\ hist[p].invoked = <<"Logging", "Auth", "Method">>
        /\ resp[p].code = 405
        /\ ~hist[p].changed


\* C18: AuthMiddleware calls the next stage exactly when the Authorization
\* header is present and its credential is an unexpired access token signed by
\* the server, and then the claims attached to the request are those of the
\* token, with its subject; otherwise it answers 401, attaches nothing and
\* the request ends there.
C18_AuthGuard ==
    [][\A p \in Procs :
          AuthMiddleware(p) =>
             LET t == TrimBearer(req[p].auth)
             IN IF req[p].auth.present /\ Verifies(t, "access")
                THEN /\ pc'[p] = "run"
                     /\ chain'[p] = Tail(chain[p])
                     /\ resp'[p] = NoResp
                     /\ ctx'[p] = t.claims
                     /\ ctx'[p].Username = t.claims.Username
                ELSE /\ pc'[p] = "done"
                     /\ resp'[p].code = 401
                     /\ resp'[p].error = IF req[p].auth.present
                                         THEN "invalid or expired access token"
                                         ELSE "authorization header required"
                     /\ ctx'[p] = NoClaims
                     /\ chain'[p] = chain[p]]_vars

\* a request with a valid access token has passed AuthMiddleware and its handler
\* has answered it with the token's claims attached
C18_Witness ==
    \E p \in Procs :
        /\ pc[p] = "done"
        /\ HandlerOf(p) = "getCarsHandler"
        /\ TrimBearer(req[p].auth) \in issued
        /\ hist[p].invoked = <<"Logging", "Auth", "Method", "getCarsHandler">>
        /\ ctx[p] = TrimBearer(req[p].auth).claims
        /\ ctx[p].Username = "seller"
        /\ resp[p].code = 200


(* --------------------- specification: the guards ----------------------- *)
\* Requests to /api/login, /api/refresh and /api/cars, one at a time, from one
\* client, with the methods POST, GET and OPTIONS, carrying the demo
\* credentials or tokens the client has received; the clock advances by a tick.

GuardRequests ==
    LET base == [NoReq EXCEPT !.remote = RemoteClient]
    IN {[base EXCEPT !.route = "login", !.method = m,
                     !.body = Body(TRUE, demoUsername, demoPassword, EmptyString)] :
            m \in {"POST", "GET", "OPTIONS"}}
       \cup {[base EXCEPT !.route = "refresh", !.method = "POST",
                          !.body = Body(TRUE, "", "", t)] : t \in IssuedAs("refresh")}
       \cup {[base EXCEPT !.route = "refresh", !.method = "GET"]}
       \cup {[base EXCEPT !.route = "cars", !.method = m, !.auth = Header(TRUE, t)] :
                m \in {"GET", "POST", "OPTIONS"}, t \in IssuedAs("access")}

StartGuards == \E r \in GuardRequests : Start(1, r, Routes[r.route], MaxReqsGuards)

TickGuards == Tick(1, MaxTicksGuards)

NextGuards ==
    \/ TickGuards
    \/ StartGuards
    \/ LoggingMiddleware(1)
    \/ RateLimitMiddleware(1)
    \/ isRateLimited_fresh(1)
    \/ isRateLimited(1)
    \/ AuthMiddleware(1)
    \/ MethodMiddleware(1)
    \/ getCarsHandler(1)
    \/ loginHandler(1)
    \/ loginHandler_respond(1)
    \/ refreshHandler(1)
    \/ refreshHandler_RLock(1)
    \/ refreshHandler_exists(1)
    \/ refreshHandler_Lock(1)
    \/ refreshHandler_delete(1)
    \/ refreshHandler_respond(1)
    \/ generateTokenPair_access(1)
    \/ generateTokenPair_refresh(1)
    \/ generateTokenPair_Lock(1)
    \/ generateTokenPair_record(1)
    \/ Finish(1)

SpecGuards == Init /\ [][NextGuards]_vars

TooManyRequests ==
    [NoResp EXCEPT !.code = 429, !.error = "rate limit exceeded - retry in 60s",
                   !.retry_after = "60"]

\* the result of the latest rate check of the client of request p
LastCheckLimited(p) ==
    LET log == checkLog[getIP(req[p])] IN log # <<>> /\ log[Len(log)].limited

\* C19: a request to /api/login or /api/refresh is answered 429 exactly when
\* the rate check of its client rejected it; the answer then carries
\* Retry-After 60, no stage after the rate limit stage has run and the request
\* has not changed the ledger; a request the check allowed went on to the next
\* stage.
C19_RateGuard ==
    \A p \in Procs :
        (pc[p] = "done" /\ req[p].route \in {"login", "refresh"}) =>
            /\ (resp[p].code = 429) = LastCheckLimited(p)
            /\ hist[p].limited = LastCheckLimited(p)
            /\ IF LastCheckLimited(p)
               THEN /\ resp[p] = TooManyRequests
                    /\ hist[p].invoked = <<"Logging", "RateLimit">>
                    /\ ~hist[p].changed
               ELSE IsPrefix(<<"Logging", "RateLimit", "Method">>, hist[p].invoked)

\* a Login with the demo credentials has been answered 429 and has left the
\* ledger, which holds a token, as it was
C19_Witness ==
    \E p \in Procs :
        /\ pc[p] = "done"
        /\ req[p].route = "login"
        /\ req[p].method = "POST"
        /\ DemoCredentials(req[p].body)
        /\ resp[p] = TooManyRequests
        /\ hist[p].invoked = <<"Logging", "RateLimit">>
        /\ DOMAIN refreshTokens # {}
        /\ ~hist[p].changed

\* the method each route's MethodMiddleware is built with in main()
ExpectedMethod == [login |-> "POST", refresh |-> "POST", logout |-> "POST", cars |-> "GET"]

\* C20: MethodMiddleware calls the next stage, the route's handler, exactly
\* when the request method is the expected one or OPTIONS; for any other method
\* it answers 405 and the request ends there.
C20_MethodGuard ==
    [][\A p \in Procs :
          MethodMiddleware(p) =>
             IF req[p].method = ExpectedMethod[req[p].route] \/ req[p].method = "OPTIONS"
             THEN /\ pc'[p] = "run"
                  /\ chain'[p] = Tail(chain[p])
                  /\ Head(chain'[p]).mw = HandlerOf(p)
                  /\ resp'[p] = NoResp
             ELSE /\ pc'[p] = "done"
                  /\ resp'[p] = ErrorResp(405, "method not allowed")
                  /\ chain'[p] = chain[p]]_vars

\* an OPTIONS request to /api/login passed the method stage and the handler
\* answered it
C20_Witness ==
    \E p \in Procs :
        /\ pc[p] = "done"
        /\ req[p].route = "login"
        /\ req[p].method = "OPTIONS"
        /\ hist[p].invoked = <<"Logging", "RateLimit", "Method", "loginHandler">>
        /\ resp[p].code = 200

(* ------------- concurrent rate checks of one client (C21) -------------- *)
\* POST /api/login without a body, always from the same client, served by
\* any goroutine
ConcRequests ==
    {[NoReq EXCEPT !.route = "login", !.method = "POST", !.remote = RemoteClient]}

StartConc == \E p \in Procs, r \in ConcRequests : Start(p, r, Routes[r.route], MaxReqsConc)

NextConc ==
    \/ StartConc
    \/ \E p \in Procs : LoggingMiddleware(p)
    \/ \E p \in Procs : RateLimitMiddleware(p)
    \/ \E p \in Procs : isRateLimited_fresh(p)
    \/ \E p \in Procs : isRateLimited(p)
    \/ \E p \in Procs : MethodMiddleware(p)
    \/ \E p \in Procs : loginHandler(p)
    \/ \E p \in Procs : Finish(p)

SpecConc == Init /\ [][NextConc]_vars

\* the checks of a log all lie inside one window
OneWindow(log) == log # <<>> => log[Len(log)].at < log[1].at + Dur(rateLimitWindow)

Min(a, b) == IF a < b THEN a ELSE b

\* C21: however the goroutines that serve the requests of one client interleave,
\* of the k rate checks the client has had inside one window that began empty
\* the first rateLimitMax to take the lock are allowed and the later ones
\* rejected, so exactly min(k, rateLimitMax) are allowed, and every check's
\* timestamp is in the stored window: no check is lost.
C21_ConcurrentChecksAreSerial ==
    \A ip \in ClientIPs :
        LET log == checkLog[ip]
        IN OneWindow(log) =>
              /\ \A i \in 1..Len(log) : log[i].limited = (i > rateLimitMax)
              /\ Cardinality({i \in 1..Len(log) : ~log[i].limited})
                    = Min(Len(log), rateLimitMax)
              /\ Len(rateLimiter[ip]) = Len(log)

\* two requests of the client that overlapped in time: one was allowed, the
\* other, the client's check number rateLimitMax+1, was answered 429
C21_Witness ==
    \E p, q \in Procs :
        /\ p # q /\ Concurrent(p, q)
        /\ pc[p] = "done" /\ pc[q] = "done"
        /\ getIP(req[p]) = getIP(req[q])
        /\ hist[p].check = rateLimitMax + 1 /\ resp[p] = TooManyRequests
        /\ hist[q].check = rateLimitMax /\ resp[q].code # 429

(* ------------------ the logging wrapper is transparent (C22) ----------- *)
\* what a request, the ledger and the rate windows look like from outside
Observable == <<resp, ctx, refreshTokens, refreshTokensMu, rateLimiter, rateLimiterMu,
                checkLog, issued, rotated, removed, failed, clock>>

\* the number of times stage mw has run for a request
TimesRun(p, mw) == Cardinality({i \in 1..Len(hist[p].invoked) : hist[p].invoked[i] = mw})

\* C22: the step of LoggingMiddleware changes neither a response nor the ledger
\* nor a rate window nor a lock: it hands the request, unchanged, to the stage
\* it wraps, so the request goes on from the state in which the route without
\* the wrapper would have started; and for every request the wrapper and the
\* stage it wraps run once, never twice.
C22_LoggingIsTransparent ==
    /\ [][\A p \in Procs :
             LoggingMiddleware(p) =>
                /\ chain[p] = Routes[req[p].route]
                /\ chain'[p] = Tail(Routes[req[p].route])
                /\ pc'[p] = "run" /\ req'[p] = req[p] /\ loc'[p] = loc[p]
                /\ UNCHANGED Observable]_vars
    /\ [](\A p \in Procs :
             /\ TimesRun(p, "Logging") <= 1
             /\ TimesRun(p, Routes[req[p].route][2].mw) <= TimesRun(p, "Logging")
             /\ pc[p] = "done" =>
                   TimesRun(p, "Logging") = 1 /\ TimesRun(p, Routes[req[p].route][2].mw) = 1)

\* a request that went through the wrapper, the rate limit, the method check
\* and its handler and was answered with a token pair
C22_Witness ==
    \E p \in Procs :
        /\ pc[p] = "done" /\ resp[p].code = 200 /\ resp[p].refresh_token # EmptyString
        /\ hist[p].invoked = DeclaredOrder[req[p].route]
        /\ Head(hist[p].invoked) = "Logging"

(* ------------------- what isRateLimited computes (C23) ----------------- *)
\* the checks of a client before check i, allowed or rejected, whose timestamp
\* is strictly later than the time of check i minus the window
Trailing(log, i) == {j \in 1..(i - 1) : log[j].at > log[i].at - Dur(rateLimitWindow)}

\* C23: a check is allowed exactly when fewer than rateLimitMax earlier checks
\* of the same client, allowed or rejected, lie strictly inside the window that
\* ends at it; and the window stored for a client after a check holds the
\* timestamps of exactly those earlier checks, in order, followed by the
\* timestamp of the check itself, whether the check was allowed or rejected.
C23_isRateLimitedComputes ==
    \A ip \in ClientIPs :
        LET log == checkLog[ip]
            n == Len(log)
            stored == rateLimiter[ip]
        IN /\ \A i \in 1..n :
                 log[i].limited = (Cardinality(Trailing(log, i)) >= rateLimitMax)
           /\ n = 0 => stored = <<>>
           /\ n > 0 =>
                 /\ Len(stored) = Cardinality(Trailing(log, n)) + 1
                 /\ \A k \in 1..Len(stored) : stored[k] = log[n - Len(stored) + k].at

\* a client whose checks number rateLimitMax+1 and rateLimitMax+2 were both
\* rejected: the timestamp of the first rejected check is in the stored window
\* and counted against the second
C23_Witness ==
    \E ip \in ClientIPs :
        LET log == checkLog[ip]
        IN /\ Len(log) = rateLimitMax + 2
           /\ log[rateLimitMax + 1].limited /\ log[rateLimitMax + 2].limited
           /\ Len(rateLimiter[ip]) = rateLimitMax + 2
           /\ \E i \in 1..rateLimitMax : ~log[i].limited

(* ------------- Rotate issues for the subject of its token (C24) -------- *)
\* the user name embedded in the refresh token of request p
Subject(p) == req[p].body.refresh_token.claims.Username

\* C24: when refreshHandler answers 200, both tokens of the answer carry the
\* user name embedded in the refresh token of the request, the first as an
\* access and the second as a refresh token; and the ledger write that
\* generateTokenPair makes for a Rotate maps the refresh token that will be
\* returned to that same user name.
C24_RotateKeepsSubject ==
    [][\A p \in Procs :
          /\ (generateTokenPair_record(p) /\ HandlerOf(p) = "refreshHandler") =>
                 /\ loc[p].refreshToken \in DOMAIN refreshTokens'
                 /\ refreshTokens'[loc[p].refreshToken] = Subject(p)
          /\ (Answers(p, "refreshHandler") /\ resp'[p].code = 200) =>
                 /\ resp'[p].access_token.claims.Username = Subject(p)
                 /\ resp'[p].access_token.claims.TokenType = "access"
                 /\ resp'[p].refresh_token.claims.Username = Subject(p)
                 /\ resp'[p].refresh_token.claims.TokenType = "refresh"
                 /\ resp'[p].refresh_token = loc[p].refreshToken]_vars

\* a Rotate of a token of the demo user answered with a pair whose refresh
\* token is in the ledger under the demo user's name
C24_Witness ==
    \E p \in Procs :
        /\ RotateOK(p)
        /\ Subject(p) = demoUsername
        /\ resp[p].refresh_token \in DOMAIN refreshTokens
        /\ refreshTokens[resp[p].refresh_token] = demoUsername
        /\ resp[p].access_token.claims.Username = demoUsername

(* ------- access tokens outlive the session's refresh token (C25) ------- *)
\* the bearer token of request p
Bearer(p) == TrimBearer(req[p].auth)

\* the refresh token generateTokenPair issued together with access token a
SessionOf(a) ==
    {r \in issued : /\ r.claims.TokenType = "refresh"
                     /\ r.claims.Username = a.claims.Username
                     /\ r.claims.IssuedAt = a.claims.IssuedAt}

\* C25: a request to /api/cars or /api/logout whose bearer token is an access
\* token with the server's signature that is not yet expired is not answered
\* 401 by AuthMiddleware, whatever the ledger holds: once AuthMiddleware has
\* run, the token's claims are attached to the request and the request goes on,
\* also when the refresh token issued with that access token has been removed
\* from the ledger by a Logout or a Rotate.
C25_AccessTokenOutlivesSession ==
    \A p \in Procs :
        ( /\ pc[p] # "idle"
          /\ req[p].route \in {"cars", "logout"}
          /\ req[p].auth.present
          /\ GenuineSig(Bearer(p))
          /\ Bearer(p).claims.TokenType = "access"
          /\ ~ExpiredNow(Bearer(p))
          /\ "Auth" \in Range(hist[p].invoked) )
        => /\ ctx[p] = Bearer(p).claims
           /\ resp[p].code # 401
           /\ pc[p] = "done" => Len(hist[p].invoked) >= 3

\* /api/cars answered 200 for an access token whose session's refresh token
\* was removed from the ledger and is no longer in it
C25_Witness ==
    \E p \in Procs :
        /\ Answered(p, "getCarsHandler") /\ resp[p].code = 200
        /\ req[p].auth.present /\ IsJWT(Bearer(p))
        /\ ~ExpiredNow(Bearer(p))
        /\ SessionOf(Bearer(p)) # {}
        /\ SessionOf(Bearer(p)) \subseteq removed
        /\ SessionOf(Bearer(p)) \cap DOMAIN refreshTokens = {}

(* --------------- /api/logout is behind AuthMiddleware (C26) ------------ *)
\* the refresh token named in the body of request p was in the ledger when the
\* request arrived and is in it now
StillInLedger(p) ==
    hist[p].inLedgerAtStart => req[p].body.refresh_token \in DOMAIN refreshTokens

\* C26: a request to /api/logout changes the ledger only after AuthMiddleware
\* accepted its bearer token as an access token and MethodMiddleware found its
\* method to be POST; a request without Authorization header, or whose bearer
\* token is not an access token signed by the server, is answered 401 by
\* AuthMiddleware, and every request answered 401 or 405 on this route has run
\* no handler and leaves the refresh token named in its body in the ledger.
C26_LogoutNeedsAccessToken ==
    \A p \in Procs :
        (pc[p] # "idle" /\ req[p].route = "logout") =>
           /\ hist[p].changed =>
                 /\ hist[p].invoked = DeclaredOrder.logout
                 /\ req[p].method = "POST"
                 /\ req[p].auth.present
                 /\ GenuineSig(Bearer(p))
                 /\ Bearer(p).claims.TokenType = "access"
           /\ ( /\ pc[p] = "done"
                /\ \/ ~req[p].auth.present
                   \/ ~GenuineSig(Bearer(p))
                   \/ Bearer(p).claims.TokenType # "access" )
              => /\ resp[p].code = 401
                 /\ hist[p].invoked = <<"Logging", "Auth">>
           /\ (pc[p] = "done" /\ resp[p].code \in {401, 405}) =>
                 /\ "logoutHandler" \notin Range(hist[p].invoked)
                 /\ ~hist[p].changed
                 /\ StillInLedger(p)

\* a POST to /api/logout without Authorization header that names a refresh
\* token of the ledger: answered 401, the token still in the ledger
C26_Witness ==
    \E p \in Procs :
        /\ pc[p] = "done" /\ req[p].route = "logout" /\ req[p].method = "POST"
        /\ ~req[p].auth.present
        /\ resp[p] = ErrorResp(401, "authorization header required")
        /\ hist[p].inLedgerAtStart
        /\ req[p].body.refresh_token \in DOMAIN refreshTokens

(* ----------- the rate limit comes before the method check (C27) -------- *)
\* request p is to a rate-limited route and its method is neither the route's
\* nor OPTIONS
WrongMethod(p) ==
    /\ req[p].route \in {"login", "refresh"}
    /\ req[p].method \notin {ExpectedMethod[req[p].route], "OPTIONS"}

\* the rate check of request p is the latest of its client and its timestamp
\* is the last of the client's stored window
Counted(p) ==
    LET ip == getIP(req[p])
    IN /\ hist[p].check > 0
       /\ hist[p].check = Len(checkLog[ip])
       /\ rateLimiter[ip] # <<>>
       /\ rateLimiter[ip][Len(rateLimiter[ip])] = checkLog[ip][hist[p].check].at

\* C27: on /api/login and /api/refresh MethodMiddleware runs only after the
\* rate check of the request; a request with a wrong method that has been
\* answered was counted in its client's window, and was answered 429 by the
\* rate limit stage if its check was rejected, and 405 by the method stage
\* otherwise.
C27_RateLimitBeforeMethod ==
    \A p \in Procs :
        /\ ( /\ req[p].route \in {"login", "refresh"}
             /\ "Method" \in Range(hist[p].invoked) )
           => hist[p].check > 0 /\ ~hist[p].limited
        /\ (pc[p] = "done" /\ WrongMethod(p)) =>
              /\ Counted(p)
              /\ IF checkLog[getIP(req[p])][hist[p].check].limited
                 THEN resp[p] = TooManyRequests
                      /\ hist[p].invoked = <<"Logging", "RateLimit">>
                 ELSE resp[p] = ErrorResp(405, "method not allowed")
                      /\ hist[p].invoked = <<"Logging", "RateLimit", "Method">>

\* a GET to /api/refresh from a client over the limit: counted and answered
\* 429
C27_Witness ==
    \E p \in Procs :
        /\ pc[p] = "done" /\ WrongMethod(p) /\ req[p].route = "refresh"
        /\ Counted(p)
        /\ hist[p].check > rateLimitMax
        /\ resp[p].code = 429

(* ---------- every request completes and releases its locks (C28) ------- *)
\* routed Login, Rotate and Logout requests with the tokens the client holds,
\* served by any goroutine
LiveRequests ==
    LET base == [NoReq EXCEPT !.remote = RemoteClient, !.method = "POST"]
    IN {[base EXCEPT !.route = "login",
                     !.body = Body(TRUE, demoUsername, demoPassword, EmptyString)]}
       \cup {[base EXCEPT !.route = "refresh", !.body = Body(TRUE, "", "", t)] :
                t \in IssuedAs("refresh")}
       \cup {[base EXCEPT !.route = "logout", !.auth = Header(TRUE, a),
                          !.body = Body(TRUE, "", "", t)] :
                a \in IssuedAs("access"), t \in IssuedAs("refresh")}

StartLive == \E p \in Procs, r \in LiveRequests : Start(p, r, Routes[r.route], MaxReqsLive)

\* the steps of goroutine p once its request has arrived
Step(p) ==
    \/ LoggingMiddleware(p)
    \/ RateLimitMiddleware(p)
    \/ isRateLimited_fresh(p)
    \/ isRateLimited(p)
    \/ AuthMiddleware(p)
    \/ MethodMiddleware(p)
    \/ loginHandler(p)
    \/ loginHandler_respond(p)
    \/ refreshHandler(p)
    \/ refreshHandler_RLock(p)
    \/ refreshHandler_exists(p)
    \/ refreshHandler_Lock(p)
    \/ refreshHandler_delete(p)
    \/ refreshHandler_respond(p)
    \/ logoutHandler(p)
    \/ logoutHandler_Lock(p)
    \/ logoutHandler_delete(p)
    \/ generateTokenPair_access(p)
    \/ generateTokenPair_refresh(p)
    \/ generateTokenPair_Lock(p)
    \/ generateTokenPair_record(p)
    \/ Finish(p)

NextLive == StartLive \/ \E p \in Procs : Step(p)

\* the Go scheduler runs every goroutine that can take a step
Fairness == \A p \in Procs : WF_vars(Step(p))

SpecLive == Init /\ [][NextLive]_vars /\ Fairness

\* the locks goroutine p holds
HeldBy(p) ==
    (IF p \in rateLimiterMu THEN {"rateLimiterMu"} ELSE {})
    \cup (IF p \in refreshTokensMu.writer THEN {"refreshTokensMu.Lock"} ELSE {})
    \cup (IF p \in refreshTokensMu.readers THEN {"refreshTokensMu.RLock"} ELSE {})

\* C28: with every runnable goroutine scheduled, each request that has arrived
\* is answered: none waits forever for refreshTokensMu or rateLimiterMu; a
\* request is given its response once, at the step that ends it, and a
\* goroutine whose request is answered or that is idle holds no lock.
C28_EveryRequestCompletes ==
    /\ \A p \in Procs : (pc[p] # "idle") ~> (pc[p] = "done")
    /\ [](\A p \in Procs :
             /\ pc[p] \in {"idle", "done"} => HeldBy(p) = {}
             /\ pc[p] = "done" <=> resp[p] # NoResp)
    /\ [][\A p \in Procs :
             resp'[p] # resp[p] =>
                \/ resp[p] = NoResp /\ pc[p] # "done" /\ pc'[p] = "done"
                \/ resp'[p] = NoResp /\ pc[p] = "done" /\ pc'[p] = "idle"]_vars

\* a Rotate and a Logout that overlapped in time, both answered, no lock held
C28_Witness ==
    \E p, q \in Procs :
        /\ p # q /\ Concurrent(p, q)
        /\ Answered(p, "refreshHandler") /\ Answered(q, "logoutHandler")
        /\ hist[q].invoked = DeclaredOrder.logout
        /\ rateLimiterMu = {}
        /\ refreshTokensMu = [readers |-> {}, writer |-> {}]

(* ------- one answer for every cause of failed verification (C29) ------- *)
\* the answer of each entry point to a token that fails verification
AnswerToBadToken ==
    [AuthMiddleware |-> ErrorResp(401, "invalid or expired access token"),
     refreshHandler |-> ErrorResp(401, "invalid refresh token")]

\* C29: whatever the cause for which a token fails verification (a signature
\* that is not the server's, expiry, the wrong role), AuthMiddleware answers the
\* request that carries it with one and the same response, 401 'invalid or
\* expired access token', and refreshHandler with one and the same response,
\* 401 'invalid refresh token': two requests to the same entry point whose
\* tokens fail for different causes get equal responses.
C29_AnswerHidesCause ==
    [][\A p \in Procs : \A c \in {"InvalidSignature", "Expired", "WrongRole"} :
          /\ (AuthMiddleware(p) /\ req[p].auth.present
                /\ Cause(Bearer(p), "access") = c) =>
                resp'[p] = AnswerToBadToken.AuthMiddleware
          /\ (refreshHandler(p) /\ req[p].body.decodes
                /\ Cause(req[p].body.refresh_token, "refresh") = c) =>
                resp'[p] = AnswerToBadToken.refreshHandler]_vars

\* tokens failing for each of the three causes are at hand at both entry
\* points, and refreshHandler has answered a request that carried an unexpired
\* access token of the server
C29_Witness ==
    /\ \A c \in {"InvalidSignature", "Expired", "WrongRole"} : \A r \in TokenRoles :
          \E t \in ExpiryTokens : Cause(t, r) = c
    /\ \E p \in Procs :
          /\ Answered(p, "refreshHandler")
          /\ req[p].body.decodes
          /\ Cause(req[p].body.refresh_token, "refresh") = "WrongRole"
          /\ resp[p] = AnswerToBadToken.refreshHandler

(* --------------------------- the ledger (C30) -------------------------- *)
\* k is a refresh token as generateTokenPair signs them: HS256 with the
\* server's secret, role refresh, expiring 7 days after its issue second
IsIssuedRefreshToken(k) ==
    /\ GenuineSig(k)
    /\ k.claims.TokenType = "refresh"
    /\ k.claims.ExpiresAt = k.claims.IssuedAt + 604800

\* C30: in every reachable state every key of refreshTokens is a refresh token
\* as generateTokenPair produces them, never an access token, and the value
\* stored under it is the user name embedded in it; the value of an entry is
\* thus fixed by its key and cannot change to another user's name.
C30_LedgerInvariant ==
    \A k \in DOMAIN refreshTokens :
        /\ IsIssuedRefreshToken(k)
        /\ k.claims.TokenType # "access"
        /\ refreshTokens[k] = k.claims.Username

\* a Login has been answered: the refresh token it returned is a key of the
\* ledger, the access token it returned is not
C30_Witness ==
    \E p \in Procs :
        /\ Answered(p, "loginHandler") /\ resp[p].code = 200
        /\ resp[p].refresh_token \in DOMAIN refreshTokens
        /\ resp[p].access_token \notin DOMAIN refreshTokens
        /\ \E q \in Procs \ {p} : InFlight(q)

(* ------------------- what a Logout leaves alone (C31) ------------------ *)
\* C31: logoutHandler goes on to the ledger for every non-empty refresh token
\* of the body, without verifying it and without comparing it with the claims
\* AuthMiddleware attached; its write removes that key and nothing else: every
\* other entry of the ledger stays, with its value, also the entries of other
\* sessions of the same user, and no rate window changes; no other step of the
\* handler writes the ledger or a rate window.
C31_LogoutRemovesOnlyItsKey ==
    [][\A p \in Procs :
          LET t == req[p].body.refresh_token
          IN /\ logoutHandler(p) =>
                   /\ UNCHANGED <<refreshTokens, rateLimiter, checkLog>>
                   /\ t # EmptyString => pc'[p] = "lo_lock"
             /\ logoutHandler_Lock(p) => UNCHANGED <<refreshTokens, rateLimiter, checkLog>>
             /\ logoutHandler_delete(p) =>
                   /\ DOMAIN refreshTokens' = DOMAIN refreshTokens \ {t}
                   /\ \A k \in DOMAIN refreshTokens' : refreshTokens'[k] = refreshTokens[k]
                   /\ UNCHANGED <<rateLimiter, checkLog>>
                   /\ resp'[p] = LoggedOut]_vars

\* a Logout that carried the access token of one session and named the refresh
\* token of another session of the same user: that token was removed, the
\* caller's own refresh token is still in the ledger
C31_Witness ==
    \E p \in Procs :
        /\ Answered(p, "logoutHandler") /\ resp[p] = LoggedOut
        /\ hist[p].changed
        /\ req[p].body.refresh_token \in removed
        /\ req[p].body.refresh_token \notin DOMAIN refreshTokens
        /\ req[p].body.refresh_token \notin SessionOf(Bearer(p))
        /\ req[p].body.refresh_token.claims.Username = Bearer(p).claims.Username
        /\ SessionOf(Bearer(p)) # {}
        /\ SessionOf(Bearer(p)) \subseteq DOMAIN refreshTokens

(* --------------- a rate check touches one window only (C32) ------------ *)
\* the clients other than the one of request p
OtherClients(p) == ClientIPs \ {getIP(req[p])}

\* C32: the steps of isRateLimited for a request of client A leave the window
\* and the check log of every other client and the ledger as they are, and
\* write A's window only at the store; so a check of a client is rejected only
\* when rateLimitMax or more earlier checks of that same client lie inside its
\* window, however many requests other clients have made.
C32_RateCheckTouchesOneWindow ==
    /\ [][\A p \in Procs :
             /\ (RateLimitMiddleware(p) \/ isRateLimited_fresh(p)) =>
                   UNCHANGED <<rateLimiter, checkLog, refreshTokens>>
             /\ isRateLimited(p) =>
                   /\ \A ip \in OtherClients(p) :
                         /\ rateLimiter'[ip] = rateLimiter[ip]
                         /\ checkLog'[ip] = checkLog[ip]
                   /\ rateLimiter'[getIP(req[p])] # rateLimiter[getIP(req[p])]
                   /\ UNCHANGED refreshTokens]_vars
    /\ [](\A ip \in ClientIPs : \A i \in 1..Len(checkLog[ip]) :
             checkLog[ip][i].limited =>
                Cardinality(Trailing(checkLog[ip], i)) >= rateLimitMax)

\* one client is over the limit, its latest check rejected, and a request of
\* the other client, checked after that, was allowed: its window holds its own
\* timestamp only
C32_Witness ==
    \E p \in Procs, a \in ClientIPs :
        /\ pc[p] = "done" /\ hist[p].check = 1 /\ ~hist[p].limited
        /\ getIP(req[p]) # a
        /\ Len(rateLimiter[getIP(req[p])]) = 1
        /\ Len(checkLog[a]) > rateLimitMax
        /\ checkLog[a][Len(checkLog[a])].limited
        /\ Len(rateLimiter[a]) > rateLimitMax
====
